---------------------------- MODULE Spec2Model ----------------------------
(***************************************************************************)
(* PC Explorer desktop server (pc-server): the PCEX packet codec           *)
(* (protocol.py), the request dispatcher and the per-connection loops      *)
(* (server.py), with the reference CRC-32 of the compatibility test.       *)
(*                                                                         *)
(* Numbers.  Python integers are unbounded, TLC's are 32-bit signed, so a  *)
(* 32-bit unsigned value (a checksum, a length field) is the record        *)
(* [hi, lo] of its two 16-bit halves: value = hi * 65536 + lo.             *)
(* Byte strings are sequences of integers 0..255; Python's 0-based         *)
(* data[a:b] is Slice(data, a, b).                                         *)
(***************************************************************************)
EXTENDS Integers, Sequences, FiniteSets, TLC

VARIABLES
    cpc,        \* codec scenario: "input", "encoded", "tampered", "decoded"
    pkt,        \* the Packet handed to to_bytes
    buf,        \* the buffer handed to from_bytes
    tamper,     \* what happened to buf after encoding: "none", "corrupt", "truncate"
    decoded,    \* what from_bytes returned (Unset before the call)
    \* ---- UsbServer and one connection (server.py)
    mode,       \* self.mode when start() is entered, then the transport
                \* acquired: "adb" (ADB reverse), "simulate", "usb",
                \* "forward" (ADB forward)
    loop,       \* the function the thread runs: "_handle_connection",
                \* "_handle_forward_mode_connection", or "none"
    channel,    \* the peer's end: "open", or how it failed
    running,    \* self.running
    sim_conn,   \* self.sim_conn: "none" (None), "open" or "closed" (a socket)
    hpc,        \* where the thread is: "listening", "handshake", "recv",
                \* "dispatch", "wchunk" (in _handle_write_file, before
                \* _receive_data), "send", "ended" (the loop was left),
                \* "failed" (the handshake raised), "stopped" (after stop());
                \* "call", "returned": _handle_packet called on its own;
                \* "start" (start() entered), "usb_wait", "usb_poll" (a
                \* device search loop), "connecting" (the retry loop of
                \* forward mode), "start_returned" (start() returned);
                \* "receive": receive calls made on their own
    consecutive_empty_reads,
    reads,      \* number of receive calls made so far
    frame,      \* data: what the last receive call returned, Bytes(b) or None
    packet,     \* Packet.from_bytes(data) of the frame being handled, or None
    handled,    \* the packet _handle_packet was called with, or None
    raised,     \* the exception class raised inside the handler, or "none"
    escaped,    \* the exception class that left _handle_packet, or "none"
    response,   \* the Packet _handle_packet returned, or None
    sent,       \* packets written to the channel since the frame was read
    loop_exc,   \* the exception that reached the loop's except clauses in
                \* this iteration, or "none"
    wr,         \* the WRITE_FILE in progress: [path, total_size, received]
    chunks,     \* chunk_packet: the packets the WRITE_FILE in progress has
                \* decoded so far, in the order received
    files,      \* the FileSystem: path -> entry
    provisioner,\* what the platform gives when a transport is asked for:
                \* [adb, usb, tcp], or None when start() is not exercised
    attempts,   \* the connection modes start() has tried, in order
    calls,      \* the transport set-up calls start() has made, in order
    attempt,    \* _connect_via_adb_forward: connects made by the retry loop
    slept,      \* _connect_via_adb_forward: seconds slept between connects
    wire,       \* the bytes that reached the socket and were not read yet,
                \* as the segments they came in
    got,        \* what the receive calls returned, in order
    handling,   \* the number of connections whose loop was entered and
                \* has not returned
    consecutive_errors,
                \* _start_usb_mode_with_fallback: device configurations
                \* that failed in a row
    polls       \* _start_usb_mode_with_fallback: what each turn of the
                \* search loop met, in order

cvars == <<cpc, pkt, buf, tamper, decoded>>
svars == <<mode, loop, channel, running, sim_conn, hpc, consecutive_empty_reads, reads, frame,
           packet, handled, raised, escaped, response, sent, loop_exc, wr, chunks,
           files, provisioner, attempts, calls, attempt, slept, wire, got,
           handling, consecutive_errors, polls>>
fvars == <<calls, attempt, slept>>
rvars == <<wire, got>>
uvars == <<consecutive_errors, polls>>
avars == <<provisioner, attempts, fvars, rvars, handling, uvars>>
vars == <<cvars, svars>>

(***************************************************************************)
(* Bounds of the model                                                     *)
(***************************************************************************)
MaxPayloadLen == 2
MaxReads == 3

(***************************************************************************)
(* Python values                                                           *)
(***************************************************************************)
None == [kind |-> "None"]
Unset == [kind |-> "Unset"]

\* a bytes object, where the value may also be None
Bytes(b) == [kind |-> "bytes", value |-> b]

Min(a, b) == IF a < b THEN a ELSE b

\* no server has been constructed (the codec is exercised on its own)
ServerIdle ==
    /\ mode = "none" /\ loop = "none" /\ channel = "open" /\ running = FALSE
    /\ sim_conn = "none" /\ hpc = "off" /\ consecutive_empty_reads = 0
    /\ reads = 0 /\ frame = None /\ packet = None /\ handled = None
    /\ raised = "none" /\ escaped = "none" /\ response = None /\ sent = <<>>
    /\ loop_exc = "none" /\ wr = None /\ chunks = <<>>
    /\ provisioner = None /\ attempts = <<>> /\ calls = <<>> /\ attempt = 0 /\ slept = 0
    /\ wire = <<>> /\ got = <<>> /\ handling = 0 /\ files = <<>>
    /\ consecutive_errors = 0 /\ polls = <<>>

\* the codec scenario is not running (the server is exercised)
CodecIdle ==
    /\ cpc = "off" /\ pkt = None /\ buf = <<>> /\ tamper = "none" /\ decoded = Unset

\* data[a:b] with 0 <= a, 0 <= b: indices beyond the end are clamped
Slice(data, a, b) ==
    LET lo == Min(a, Len(data))
        hi == Min(b, Len(data))
    IN  IF hi <= lo THEN <<>> ELSE SubSeq(data, lo + 1, hi)

\* x ^ y on n-bit operands
RECURSIVE XorBits(_, _, _)
XorBits(a, b, n) ==
    IF n = 0 THEN 0
    ELSE (((a % 2) + (b % 2)) % 2) + 2 * XorBits(a \div 2, b \div 2, n - 1)

\* x ^ y for bytes, tabulated once
XorByte == [a \in 0..255 |-> [b \in 0..255 |-> XorBits(a, b, 8)]]

\* x ^ y for 16-bit operands, a byte at a time
Xor16(a, b) == XorByte[a % 256][b % 256] + 256 * XorByte[a \div 256][b \div 256]

U32Xor(x, y) == [hi |-> Xor16(x.hi, y.hi), lo |-> Xor16(x.lo, y.lo)]
U32Shr1(x) == [hi |-> x.hi \div 2, lo |-> (x.lo \div 2) + (x.hi % 2) * 32768]
U32Shr8(x) == [hi |-> x.hi \div 256, lo |-> (x.lo \div 256) + (x.hi % 256) * 256]
\* (~x) & 0xFFFFFFFF, which is also x ^ 0xFFFFFFFF
U32Not(x) == [hi |-> 65535 - x.hi, lo |-> 65535 - x.lo]
\* a Python int 0 <= n < 2^31 as a 32-bit value
U32FromInt(n) == [hi |-> n \div 65536, lo |-> n % 65536]
\* the 32-bit value as an integer, where it is below 2^31
U32Fits(x) == x.hi < 32768
U32ToInt(x) == x.hi * 65536 + x.lo

\* struct.pack("<I", x) and struct.unpack("<I", b)[0], b of exactly 4 bytes
pack_u32(x) == <<x.lo % 256, x.lo \div 256, x.hi % 256, x.hi \div 256>>
unpack_u32(b) == [hi |-> b[3] + 256 * b[4], lo |-> b[1] + 256 * b[2]]

(***************************************************************************)
(* CRC-32                                                                  *)
(***************************************************************************)
\* 0xEDB88320 and 0xFFFFFFFF
POLY == [hi |-> 60856, lo |-> 33568]
SEED == [hi |-> 65535, lo |-> 65535]

\* kotlin_crc32: the inner "for _ in range(8)" loop
RECURSIVE kotlin_crc32_bits(_, _)
kotlin_crc32_bits(crc, n) ==
    IF n = 0 THEN crc
    ELSE IF crc.lo % 2 = 1
         THEN kotlin_crc32_bits(U32Xor(U32Shr1(crc), POLY), n - 1)
         ELSE kotlin_crc32_bits(U32Shr1(crc), n - 1)

\* kotlin_crc32: the "for byte in data" loop, from byte i on
RECURSIVE kotlin_crc32_loop(_, _, _)
kotlin_crc32_loop(crc, data, i) ==
    IF i > Len(data) THEN crc
    ELSE LET next == kotlin_crc32_bits(
                         U32Xor(crc, [hi |-> 0, lo |-> data[i] % 256]), 8)
         IN  \* (the test makes TLC evaluate next before it goes on)
             IF next.lo >= 0 THEN kotlin_crc32_loop(next, data, i + 1) ELSE next

\* kotlin_crc32 without the final one's complement
kotlin_crc32_NoFinalXor(data) == kotlin_crc32_loop(SEED, data, 1)

kotlin_crc32(data) == U32Not(kotlin_crc32_loop(SEED, data, 1))

\* zlib's crc_table[n] (make_crc_table): n shifted out bit by bit
RECURSIVE zlib_table_entry(_, _)
zlib_table_entry(c, k) ==
    IF k = 0 THEN c
    ELSE IF c.lo % 2 = 1
         THEN zlib_table_entry(U32Xor(POLY, U32Shr1(c)), k - 1)
         ELSE zlib_table_entry(U32Shr1(c), k - 1)

zlib_crc_table == [n \in 0..255 |-> zlib_table_entry([hi |-> 0, lo |-> n], 8)]

\* zlib's byte loop: c = crc_table[(c ^ b) & 0xff] ^ (c >> 8)
RECURSIVE zlib_crc32_loop(_, _, _)
zlib_crc32_loop(c, data, i) ==
    IF i > Len(data) THEN c
    ELSE LET next == U32Xor(zlib_crc_table[XorByte[c.lo % 256][data[i]]],
                            U32Shr8(c))
         IN  \* (the test makes TLC evaluate next before it goes on)
             IF next.lo >= 0 THEN zlib_crc32_loop(next, data, i + 1) ELSE next

\* zlib.crc32(data): the running value starts and ends complemented
zlib_crc32(data) == U32Not(zlib_crc32_loop(U32Not([hi |-> 0, lo |-> 0]), data, 1))

\* zlib.crc32(data) & 0xFFFFFFFF
python_crc32(data) == zlib_crc32(data)

(***************************************************************************)
(* Packet                                                                  *)
(***************************************************************************)
MAGIC == <<80, 67, 69, 88>>
HEADER_SIZE == 14

Packet(command, flags, payload) ==
    [kind |-> "Packet", command |-> command, flags |-> flags, payload |-> payload]

\* to_bytes with the length field packed big-endian (">I")
to_bytes_BigEndianLength(p) ==
    LET n == U32FromInt(Len(p.payload))
        data == MAGIC \o <<p.command, p.flags>>
                      \o <<n.hi \div 256, n.hi % 256, n.lo \div 256, n.lo % 256>>
                      \o p.payload
    IN  data \o pack_u32(python_crc32(data))

to_bytes(p) ==
    LET data == MAGIC \o <<p.command, p.flags>>
                      \o pack_u32(U32FromInt(Len(p.payload))) \o p.payload
        checksum == python_crc32(data)
    IN  data \o pack_u32(checksum)

\* from_bytes taking the payload from offset HEADER_SIZE instead of 10
from_bytes_PayloadAtHeaderSize(data) ==
    IF Len(data) < HEADER_SIZE THEN None
    ELSE IF Slice(data, 0, 4) # MAGIC THEN None
    ELSE
      LET payload_length == unpack_u32(Slice(data, 6, 10))
      IN  IF ~U32Fits(payload_length)
             \/ Len(data) - HEADER_SIZE < U32ToInt(payload_length)
          THEN None
          ELSE
            LET n == U32ToInt(payload_length)
            IN  IF unpack_u32(Slice(data, 10 + n, 14 + n))
                     # python_crc32(Slice(data, 0, 10 + n))
                THEN None
                ELSE Packet(data[5], data[6],
                            Slice(data, HEADER_SIZE, HEADER_SIZE + n))

\* from_bytes without the checksum comparison
from_bytes_NoChecksumCheck(data) ==
    IF Len(data) < HEADER_SIZE THEN None
    ELSE IF Slice(data, 0, 4) # MAGIC THEN None
    ELSE
      LET payload_length == unpack_u32(Slice(data, 6, 10))
      IN  IF ~U32Fits(payload_length)
             \/ Len(data) - HEADER_SIZE < U32ToInt(payload_length)
          THEN None
          ELSE Packet(data[5], data[6],
                      Slice(data, 10, 10 + U32ToInt(payload_length)))

\* from_bytes without the "len(data) < HEADER_SIZE + payload_length" return:
\* a short frame comes back as a packet with the bytes that are there
from_bytes_NoLengthCheck(data) ==
    IF Len(data) < HEADER_SIZE THEN None
    ELSE IF Slice(data, 0, 4) # MAGIC THEN None
    ELSE
      LET payload_length == unpack_u32(Slice(data, 6, 10))
      IN  IF ~U32Fits(payload_length)
             \/ Len(data) - HEADER_SIZE < U32ToInt(payload_length)
          THEN Packet(data[5], data[6], Slice(data, 10, Len(data)))
          ELSE
            LET n == U32ToInt(payload_length)
            IN  IF unpack_u32(Slice(data, 10 + n, 14 + n))
                     # python_crc32(Slice(data, 0, 10 + n))
                THEN None
                ELSE Packet(data[5], data[6], Slice(data, 10, 10 + n))

from_bytes(data) ==
    IF Len(data) < HEADER_SIZE THEN None
    ELSE IF Slice(data, 0, 4) # MAGIC THEN None
    ELSE
      LET command == data[5]
          flags == data[6]
          payload_length == unpack_u32(Slice(data, 6, 10))
      IN  \* len(data) < HEADER_SIZE + payload_length; a length of 2^31 or
          \* more exceeds every buffer of the model
          IF ~U32Fits(payload_length)
             \/ Len(data) - HEADER_SIZE < U32ToInt(payload_length)
          THEN None
          ELSE
            LET n == U32ToInt(payload_length)
                payload == Slice(data, 10, 10 + n)
                received_checksum == unpack_u32(Slice(data, 10 + n, 14 + n))
                data_for_checksum == Slice(data, 0, 10 + n)
                calculated_checksum == python_crc32(data_for_checksum)
            IN  IF received_checksum # calculated_checksum THEN None
                ELSE Packet(command, flags, payload)

(***************************************************************************)
(* Command, Flags, ErrorCode                                               *)
(***************************************************************************)
HANDSHAKE == 1
LIST_DIR == 2
GET_FILE_INFO == 3
READ_FILE == 4
WRITE_FILE == 5
CREATE_DIR == 6
DELETE == 7
RENAME == 8
SEARCH == 9
GET_DRIVES == 10
GET_STORAGE_INFO == 11
DISCONNECT == 255
RESPONSE_OK == 128
RESPONSE_ERROR == 129
RESPONSE_DATA == 130
RESPONSE_FILE_CHUNK == 131
RESPONSE_END == 132

\* the values of the Command enumeration: Command(x) raises ValueError for
\* any other x
CommandValues ==
    {HANDSHAKE, LIST_DIR, GET_FILE_INFO, READ_FILE, WRITE_FILE, CREATE_DIR,
     DELETE, RENAME, SEARCH, GET_DRIVES, GET_STORAGE_INFO, DISCONNECT,
     RESPONSE_OK, RESPONSE_ERROR, RESPONSE_DATA, RESPONSE_FILE_CHUNK,
     RESPONSE_END}

FLAG_NONE == 0
FLAG_CONTINUATION == 4
FLAG_FINAL == 8

UNKNOWN_COMMAND == 1
FILE_NOT_FOUND == 3
PERMISSION_DENIED == 4
ALREADY_EXISTS == 5
IO_ERROR == 8
PROTOCOL_ERROR == 10

CHUNK_SIZE == 32768

(***************************************************************************)
(* Text.  A str is modelled by its UTF-8 bytes.                            *)
(***************************************************************************)
\* b"PCEX-Server-1.0" and b"PCEX-Server-1.0-Forward"
ServerIdentity == <<80, 67, 69, 88, 45, 83, 101, 114, 118, 101, 114, 45, 49, 46, 48>>
ForwardIdentity == ServerIdentity \o <<45, 70, 111, 114, 119, 97, 114, 100>>
\* "Unknown command: ", "Connection lost during transfer", "Invalid chunk packet"
UnknownCommandText ==
    <<85, 110, 107, 110, 111, 119, 110, 32, 99, 111, 109, 109, 97, 110, 100, 58, 32>>
ConnectionLostText ==
    <<67, 111, 110, 110, 101, 99, 116, 105, 111, 110, 32, 108, 111, 115, 116, 32,
      100, 117, 114, 105, 110, 103, 32, 116, 114, 97, 110, 115, 102, 101, 114>>
InvalidChunkText ==
    <<73, 110, 118, 97, 108, 105, 100, 32, 99, 104, 117, 110, 107, 32, 112, 97,
      99, 107, 101, 116>>
\* str(e) of an exception: free text that comes from the platform; one sample
ExceptionText == <<101, 114, 114>>

\* str(n) for an int n >= 0
RECURSIVE DecimalText(_)
DecimalText(n) ==
    IF n < 10 THEN <<48 + n>> ELSE Append(DecimalText(n \div 10), 48 + (n % 10))

\* whether bytes.decode("utf-8") accepts data from 1-based position i on
\* (otherwise it raises UnicodeDecodeError)
RECURSIVE utf8_valid_from(_, _)
utf8_valid_from(d, i) ==
    LET n == Len(d)
        cont(k) == k <= n /\ d[k] >= 128 /\ d[k] <= 191
    IN  IF i > n THEN TRUE
        ELSE IF d[i] < 128 THEN utf8_valid_from(d, i + 1)
        ELSE IF d[i] >= 194 /\ d[i] <= 223
             THEN cont(i + 1) /\ utf8_valid_from(d, i + 2)
        ELSE IF d[i] >= 224 /\ d[i] <= 239
             THEN /\ cont(i + 1) /\ cont(i + 2)
                  /\ (d[i] = 224 => d[i + 1] >= 160)
                  /\ (d[i] = 237 => d[i + 1] <= 159)
                  /\ utf8_valid_from(d, i + 3)
        ELSE IF d[i] >= 240 /\ d[i] <= 244
             THEN /\ cont(i + 1) /\ cont(i + 2) /\ cont(i + 3)
                  /\ (d[i] = 240 => d[i + 1] >= 144)
                  /\ (d[i] = 244 => d[i + 1] <= 143)
                  /\ utf8_valid_from(d, i + 4)
        ELSE FALSE

utf8_valid(d) == utf8_valid_from(d, 1)

(***************************************************************************)
(* PayloadSerializer.  A call that can raise returns [exc, value]: exc is  *)
(* the exception class, or "none" with the value returned.                 *)
(***************************************************************************)
Ok(v) == [exc |-> "none", value |-> v]
Fail(e) == [exc |-> e, value |-> None]

\* the largest integer of the model: stands for every value of 2^31 or more
Huge == 2147483647

\* struct.pack("<Q", n), 0 <= n < 2^31 (the upper four bytes are then 0)
pack_u64(n) == pack_u32(U32FromInt(n)) \o <<0, 0, 0, 0>>

\* struct.unpack("<Q", b)[0], b of exactly 8 bytes
unpack_u64(b) ==
    IF b[5] = 0 /\ b[6] = 0 /\ b[7] = 0 /\ b[8] = 0 /\ b[4] < 128
    THEN U32ToInt(unpack_u32(b)) ELSE Huge

\* the u32 at data[off:off+4]: struct.error when fewer than 4 bytes are there
u32_of(x) == Ok(IF U32Fits(x) THEN U32ToInt(x) ELSE Huge)

read_u32(d, off) ==
    IF Len(d) < off + 4 THEN Fail("struct.error")
    ELSE u32_of(unpack_u32(SubSeq(d, off + 1, off + 4)))

read_u64(d, off) ==
    IF Len(d) < off + 8 THEN Fail("struct.error")
    ELSE Ok(unpack_u64(SubSeq(d, off + 1, off + 8)))

\* data[off+4 : off+4+n].decode("utf-8") with n the result of read_u32:
\* [exc, value, next], next the offset after the string (offsets past the
\* end all read as len(data))
decode_at(d, off, n, end) ==
    IF n.exc # "none" THEN [exc |-> n.exc, value |-> None, next |-> off]
    ELSE IF utf8_valid(Slice(d, off + 4, end))
    THEN [exc |-> "none", value |-> Slice(d, off + 4, end), next |-> end]
    ELSE [exc |-> "UnicodeDecodeError", value |-> None, next |-> end]

string_end(d, off, n) ==
    IF n.exc # "none" \/ n.value >= Len(d) THEN Len(d)
    ELSE Min(off + 4 + n.value, Len(d))

\* the length-prefixed string at offset off
read_str_of(d, off, n) == decode_at(d, off, n, string_end(d, off, n))
read_str(d, off) == read_str_of(d, off, read_u32(d, off))

path_of(s) == [exc |-> s.exc, value |-> s.value]
deserialize_path(d) == path_of(read_str(d, 0))

serialize_path(path) == pack_u32(U32FromInt(Len(path))) \o path

\* deserialize_rename and deserialize_search: two strings in a row
second_string(a, b) ==
    IF b.exc # "none" THEN Fail(b.exc) ELSE Ok(<<a.value, b.value>>)
first_string(d, a) ==
    IF a.exc # "none" THEN Fail(a.exc) ELSE second_string(a, read_str(d, a.next))
deserialize_two(d) == first_string(d, read_str(d, 0))

deserialize_rename(d) == deserialize_two(d)
deserialize_search(d) == deserialize_two(d)

\* deserialize_file_read_request after its path
read_request_tail(s, o, l) ==
    IF o.exc # "none" THEN Fail(o.exc)
    ELSE IF l.exc # "none" THEN Fail(l.exc)
    ELSE Ok([path |-> s.value, offset |-> o.value, length |-> l.value])
read_request_of(d, s) ==
    IF s.exc # "none" THEN Fail(s.exc)
    ELSE read_request_tail(s, read_u64(d, s.next), read_u64(d, s.next + 8))
deserialize_file_read_request(d) == read_request_of(d, read_str(d, 0))

\* deserialize_file_write_header after its path
write_header_tail(s, t, c) ==
    IF t.exc # "none" THEN Fail(t.exc)
    ELSE IF c.exc # "none" THEN Fail(c.exc)
    ELSE Ok([path |-> s.value, total_size |-> t.value, chunk_size |-> c.value])
write_header_of(d, s) ==
    IF s.exc # "none" THEN Fail(s.exc)
    ELSE write_header_tail(s, read_u64(d, s.next), read_u32(d, s.next + 8))
deserialize_file_write_header(d) == write_header_of(d, read_str(d, 0))

serialize_file_item(f) ==
    pack_u32(U32FromInt(Len(f.name))) \o f.name
      \o pack_u32(U32FromInt(Len(f.path))) \o f.path
      \o <<IF f.is_dir THEN 1 ELSE 0>>
      \o pack_u64(f.size) \o pack_u64(f.last_modified)

RECURSIVE serialize_file_items(_)
serialize_file_items(fs) ==
    IF fs = <<>> THEN <<>>
    ELSE serialize_file_item(Head(fs)) \o serialize_file_items(Tail(fs))

serialize_file_list(fs) == pack_u32(U32FromInt(Len(fs))) \o serialize_file_items(fs)

serialize_storage_info(total, free, drive, volume) ==
    pack_u64(total) \o pack_u64(free)
      \o pack_u32(U32FromInt(Len(drive))) \o drive
      \o pack_u32(U32FromInt(Len(volume))) \o volume

RECURSIVE serialize_drives(_)
serialize_drives(ds) ==
    IF ds = <<>> THEN <<>>
    ELSE pack_u32(U32FromInt(Len(Head(ds)))) \o Head(ds) \o serialize_drives(Tail(ds))

serialize_drive_list(ds) == pack_u32(U32FromInt(Len(ds))) \o serialize_drives(ds)

serialize_error(code, message) ==
    pack_u32(U32FromInt(code)) \o pack_u32(U32FromInt(Len(message))) \o message

(***************************************************************************)
(* Paths (os.path on a POSIX platform: platform.system() is not "Windows") *)
(***************************************************************************)
Slash == <<47>>
RootVolume == <<82, 111, 111, 116>>     \* "Root"

\* p.rfind("/") + 1: the 1-based position of the last "/", 0 when none
LastSlash(p, i) ==
    IF \A j \in 1..i : p[j] # 47 THEN 0
    ELSE CHOOSE j \in 1..i : p[j] = 47 /\ \A k \in (j + 1)..i : p[k] # 47

\* p.rstrip("/")
RECURSIVE rstrip_slash(_)
rstrip_slash(p) ==
    IF p # <<>> /\ p[Len(p)] = 47 THEN rstrip_slash(SubSeq(p, 1, Len(p) - 1)) ELSE p

basename(p) == Slice(p, LastSlash(p, Len(p)), Len(p))

dirname(p) ==
    LET head == Slice(p, 0, LastSlash(p, Len(p)))
    IN  IF rstrip_slash(head) = <<>> THEN head ELSE rstrip_slash(head)

join(a, b) ==
    IF b # <<>> /\ b[1] = 47 THEN b
    ELSE IF a = <<>> \/ a[Len(a)] = 47 THEN a \o b
    ELSE a \o Slash \o b

\* whether directory a lies on the way from the root to p (a # p)
RECURSIVE IsAncestor(_, _)
IsAncestor(a, p) ==
    LET up == dirname(p)
    IN  IF up = p \/ p = <<>> THEN FALSE ELSE up = a \/ IsAncestor(a, up)

\* str.lower() on ASCII text
lower(s) == [i \in 1..Len(s) |-> IF s[i] >= 65 /\ s[i] <= 90 THEN s[i] + 32 ELSE s[i]]

\* q in s
Contains(q, s) ==
    \E i \in 0..(Len(s) - Len(q)) : Slice(s, i, i + Len(q)) = q

(***************************************************************************)
(* The file system the FileHandler works on: files maps each existing      *)
(* path to [is_dir, content]; the root directory always exists.            *)
(***************************************************************************)
Dir == [is_dir |-> TRUE, content |-> <<>>]
File(content) == [is_dir |-> FALSE, content |-> content]

\* st_mtime * 1000, shutil.disk_usage: what the platform reports (samples)
Mtime == 1000
DiskTotal == 100
DiskFree == 40

exists(fs, p) == p = Slash \/ p \in DOMAIN fs
isdir(fs, p) == p = Slash \/ (p \in DOMAIN fs /\ fs[p].is_dir)
Children(fs, p) == {k \in DOMAIN fs : k # p /\ dirname(k) = p}
Descendants(fs, p) == {k \in DOMAIN fs : IsAncestor(p, k)}

\* fs without the paths in S, and fs with path p set to entry e
Without(fs, S) == [k \in (DOMAIN fs) \ S |-> fs[k]]
With(fs, p, e) == [k \in (DOMAIN fs) \cup {p} |-> IF k = p THEN e ELSE fs[k]]

\* one order in which the platform lists a set of paths
RECURSIVE Listing(_)
Listing(S) ==
    IF S = {} THEN <<>>
    ELSE LET k == CHOOSE x \in S : \A y \in S : Len(x) <= Len(y)
         IN  <<k>> \o Listing(S \ {k})

\* the dict get_file_info, list_directory and search_files build for path p
Info(fs, name, p) ==
    [name |-> name, path |-> p, is_dir |-> isdir(fs, p),
     size |-> IF isdir(fs, p) THEN 0 ELSE Len(fs[p].content),
     last_modified |-> Mtime]

\* A FileHandler call returns [exc, value, files]: the exception class it
\* raised ("none": it returned value) and the file system it leaves.
\* fault is what the platform does to the call's first system call:
\* "none", or the OSError subclass it fails with.
Returns(v, fs) == [exc |-> "none", value |-> v, files |-> fs]
Raises(e, fs) == [exc |-> e, value |-> None, files |-> fs]

get_drives == <<Slash>>

get_storage_info(fs, path, fault) ==
    LET p == IF path = <<>> THEN get_drives[1] ELSE path
    IN  IF fault # "none" \/ ~exists(fs, p)
        THEN Returns(<<0, 0, <<>>, <<>>>>, fs)
        ELSE Returns(<<DiskTotal, DiskFree, Slash, RootVolume>>, fs)

get_file_info(fs, path, fault) ==
    IF fault # "none" THEN Raises(fault, fs)
    ELSE IF ~exists(fs, path) THEN Raises("FileNotFoundError", fs)
    ELSE Returns(Info(fs, basename(path), path), fs)

list_directory(fs, path, fault) ==
    LET p == IF path = <<>> THEN get_drives[1] ELSE path
        entries == Listing(Children(fs, p))
    IN  IF fault # "none" THEN Raises(fault, fs)
        ELSE IF ~exists(fs, p) THEN Raises("FileNotFoundError", fs)
        ELSE IF ~isdir(fs, p) THEN Raises("NotADirectoryError", fs)
        ELSE Returns([i \in 1..Len(entries) |->
                         Info(fs, basename(entries[i]), join(p, basename(entries[i])))],
                     fs)

max_results == 100
\* "$RECYCLE.BIN" and "System Volume Information"
SkippedDirs ==
    {<<36, 82, 69, 67, 89, 67, 76, 69, 46, 66, 73, 78>>,
     <<83, 121, 115, 116, 101, 109, 32, 86, 111, 108, 117, 109, 101, 32, 73, 110,
       102, 111, 114, 109, 97, 116, 105, 111, 110>>}

\* a directory os.walk is told not to enter (and search_files does not report)
Pruned(fs, k) ==
    isdir(fs, k) /\ basename(k) # <<>>
      /\ (basename(k)[1] = 46 \/ basename(k) \in SkippedDirs)

\* os.walk ignores the errors of listing; a stat that fails skips the entry
search_files(fs, query, base_path, fault) ==
    LET base == IF base_path = <<>> THEN get_drives[1] ELSE base_path
        walked == {k \in Descendants(fs, base) :
                      /\ ~Pruned(fs, k)
                      /\ \A a \in Descendants(fs, base) : IsAncestor(a, k) => ~Pruned(fs, a)}
        hits == {k \in walked : Contains(lower(query), lower(basename(k)))}
        found == Listing(hits)
    IN  IF fault # "none" \/ ~isdir(fs, base) THEN Returns(<<>>, fs)
        ELSE Returns(Slice([i \in 1..Len(found) |->
                               Info(fs, basename(found[i]), found[i])], 0, max_results),
                     fs)

\* the directories os.makedirs(p) has to make, p included
RECURSIVE Missing(_, _)
Missing(fs, p) ==
    IF p = <<>> \/ exists(fs, p) THEN {}
    ELSE {p} \cup (IF dirname(p) = p THEN {} ELSE Missing(fs, dirname(p)))

\* whether a path on the way to p is a regular file
BlockedByFile(fs, p) == \E a \in DOMAIN fs : IsAncestor(a, p) /\ ~fs[a].is_dir

makedirs(fs, p) == [k \in (DOMAIN fs) \cup Missing(fs, p) |->
                       IF k \in DOMAIN fs THEN fs[k] ELSE Dir]

create_directory(fs, path, fault) ==
    IF fault # "none" THEN Raises(fault, fs)
    ELSE IF path = <<>> THEN Raises("FileNotFoundError", fs)
    ELSE IF exists(fs, path) THEN Raises("FileExistsError", fs)
    ELSE IF BlockedByFile(fs, path) THEN Raises("NotADirectoryError", fs)
    ELSE get_file_info(makedirs(fs, path), path, "none")

\* os.rename(old, new) once both are known to be usable: old and everything
\* below it move to new
Renamed(fs, old, new) ==
    LET moved == {old} \cup Descendants(fs, old)
        target(k) == new \o Slice(k, Len(old), Len(k))
        kept == Without(fs, moved \cup {new} \cup Descendants(fs, new))
    IN  [k \in (DOMAIN kept) \cup {target(m) : m \in moved} |->
            IF \E m \in moved : target(m) = k
            THEN fs[CHOOSE m \in moved : target(m) = k]
            ELSE kept[k]]

rename(fs, old_path, new_name, fault) ==
    LET parent == dirname(old_path)
        new_path == join(parent, new_name)
    IN  IF fault # "none" THEN Raises(fault, fs)
        ELSE IF old_path \notin DOMAIN fs \/ ~isdir(fs, dirname(new_path))
             THEN (IF old_path = Slash THEN Raises("OSError", fs)
                   ELSE Raises("FileNotFoundError", fs))
        ELSE IF new_path = old_path THEN get_file_info(fs, new_path, "none")
        ELSE IF new_path = Slash \/ new_path[Len(new_path)] = 47
                  \/ IsAncestor(old_path, new_path)
             THEN Raises("OSError", fs)
        ELSE IF exists(fs, new_path) /\ isdir(fs, new_path) /\ ~isdir(fs, old_path)
             THEN Raises("IsADirectoryError", fs)
        ELSE IF exists(fs, new_path) /\ ~isdir(fs, new_path) /\ isdir(fs, old_path)
             THEN Raises("NotADirectoryError", fs)
        ELSE IF exists(fs, new_path) /\ Children(fs, new_path) # {}
             THEN Raises("OSError", fs)
        ELSE get_file_info(Renamed(fs, old_path, new_path), new_path, "none")

\* shutil.rmtree of a directory, os.remove of anything else
delete(fs, path, fault) ==
    IF fault # "none" THEN Raises(fault, fs)
    ELSE IF path = Slash THEN Raises("OSError", Without(fs, DOMAIN fs))
    ELSE IF isdir(fs, path) THEN Returns(None, Without(fs, {path} \cup Descendants(fs, path)))
    ELSE IF ~exists(fs, path) THEN Raises("FileNotFoundError", fs)
    ELSE Returns(None, Without(fs, {path}))

\* read_file_chunk without its f.seek(offset)
read_file_chunk_NoSeek(fs, path, offset, length, fault) ==
    IF fault # "none" THEN Raises(fault, fs)
    ELSE IF ~exists(fs, path) THEN Raises("FileNotFoundError", fs)
    ELSE IF isdir(fs, path) THEN Raises("IsADirectoryError", fs)
    ELSE LET content == fs[path].content
         IN  IF length < 0 THEN Returns(content, fs)
             ELSE Returns(Slice(content, 0, Min(Len(content), length)), fs)

read_file_chunk(fs, path, offset, length, fault) ==
    IF fault # "none" THEN Raises(fault, fs)
    ELSE IF ~exists(fs, path) THEN Raises("FileNotFoundError", fs)
    ELSE IF isdir(fs, path) THEN Raises("IsADirectoryError", fs)
    ELSE LET content == fs[path].content
         IN  IF offset >= Len(content) THEN Returns(<<>>, fs)
             ELSE IF length < 0 THEN Returns(Slice(content, offset, Len(content)), fs)
             ELSE Returns(Slice(content, offset, Min(Len(content), offset + length)), fs)

\* f.seek(offset); f.write(chunk) on a file that holds content: a gap is
\* filled with zero bytes
WrittenAt(content, offset, chunk) ==
    LET padded == content \o [i \in 1..(offset - Len(content)) |-> 0]
    IN  Slice(padded, 0, offset) \o chunk
          \o Slice(content, offset + Len(chunk), Len(content))

write_file_chunk(fs, path, chunk, offset, create, fault) ==
    IF fault # "none" THEN Raises(fault, fs)
    ELSE IF create /\ ~exists(fs, path)
         THEN IF dirname(path) = <<>> THEN Raises("FileNotFoundError", fs)
              ELSE IF exists(fs, dirname(path)) /\ ~isdir(fs, dirname(path))
                 THEN Raises("FileExistsError", fs)
              ELSE IF BlockedByFile(fs, path) THEN Raises("NotADirectoryError", fs)
              ELSE IF path[Len(path)] = 47
                 THEN Raises("IsADirectoryError", makedirs(fs, dirname(path)))
              ELSE Returns(None, With(makedirs(fs, dirname(path)), path,
                                      File(WrittenAt(<<>>, offset, chunk))))
    ELSE IF ~exists(fs, path) THEN Raises("FileNotFoundError", fs)
    ELSE IF isdir(fs, path) THEN Raises("IsADirectoryError", fs)
    ELSE Returns(None, With(fs, path,
                            File(WrittenAt(IF create /\ offset = 0 THEN <<>>
                                           ELSE fs[path].content, offset, chunk))))

(***************************************************************************)
(* UsbServer: the request handlers.  A handler returns                     *)
(*   [exc, response, files, out, wr]:                                      *)
(* the exception class it raised ("none": it returned response), the file  *)
(* system it leaves and the packets it wrote to the channel itself; wr is  *)
(* set while _handle_write_file waits for the next chunk (then it has not  *)
(* returned yet and response is None).                                     *)
(* chan is the state of the channel ("open", or the exception a write      *)
(* raises); fault is what the platform does to the handler's first file    *)
(* system call.                                                            *)
(***************************************************************************)
Returned(resp, fs, out) ==
    [exc |-> "none", response |-> resp, files |-> fs, out |-> out, wr |-> None]
Raised(e, fs, out) ==
    [exc |-> e, response |-> None, files |-> fs, out |-> out, wr |-> None]
Awaiting(w, fs, out) ==
    [exc |-> "none", response |-> None, files |-> fs, out |-> out, wr |-> w]

_error_response(code, message) ==
    Packet(RESPONSE_ERROR, FLAG_NONE, serialize_error(code, message))

_handle_handshake(p, fs, fault, chan) ==
    IF ~utf8_valid(p.payload) THEN Raised("UnicodeDecodeError", fs, <<>>)
    ELSE Returned(Packet(RESPONSE_OK, FLAG_NONE, ServerIdentity), fs, <<>>)

\* a handler after its first FileHandler call came back as r (Returns or
\* Raises), the payload of the answer being body
answer(r, command, body) ==
    IF r.exc # "none" THEN Raised(r.exc, r.files, <<>>)
    ELSE Returned(Packet(command, FLAG_NONE, body), r.files, <<>>)

list_dir_of(path, fs, fault) ==
    IF path.exc # "none" THEN Raised(path.exc, fs, <<>>)
    ELSE \* files = self.file_handler.list_directory(path)
         LET listed == list_directory(fs, path.value, fault)
         IN  answer(listed, RESPONSE_DATA, serialize_file_list(listed.value))

_handle_list_dir(p, fs, fault, chan) ==
    list_dir_of(deserialize_path(p.payload), fs, fault)

\* serialize_file_list([info]) without its last 4 bytes
all_but_4(whole) == Slice(whole, 0, Len(whole) - 4)

get_file_info_of(path, fs, fault) ==
    IF path.exc # "none" THEN Raised(path.exc, fs, <<>>)
    ELSE LET info == get_file_info(fs, path.value, fault)
         IN  answer(info, RESPONSE_DATA, all_but_4(serialize_file_list(<<info.value>>)))

_handle_get_file_info(p, fs, fault, chan) ==
    get_file_info_of(deserialize_path(p.payload), fs, fault)

\* _handle_read_file: the "while remaining > 0" loop; out is what has been
\* written so far
\* the loop with "is_last = remaining < chunk_size"
RECURSIVE read_file_loop_StrictLast(_, _, _, _, _, _)
read_file_loop_StrictLast(fs, path, current_offset, remaining, chan, out) ==
    IF remaining <= 0 THEN Returned(Packet(RESPONSE_END, FLAG_NONE, <<>>), fs, out)
    ELSE LET chunk_size == Min(CHUNK_SIZE, remaining)
             chunk_data == read_file_chunk(fs, path, current_offset, chunk_size, "none")
         IN  IF chunk_data.exc # "none" THEN Raised(chunk_data.exc, fs, out)
             ELSE IF chan # "open" THEN Raised(chan, fs, out)
             ELSE read_file_loop_StrictLast(fs, path, current_offset + chunk_size,
                                 remaining - chunk_size, chan,
                                 Append(out, Packet(RESPONSE_FILE_CHUNK,
                                                    IF remaining < chunk_size
                                                    THEN FLAG_FINAL ELSE FLAG_CONTINUATION,
                                                    chunk_data.value)))

RECURSIVE read_file_loop(_, _, _, _, _, _)
read_file_loop(fs, path, current_offset, remaining, chan, out) ==
    IF remaining <= 0 THEN Returned(Packet(RESPONSE_END, FLAG_NONE, <<>>), fs, out)
    ELSE LET chunk_size == Min(CHUNK_SIZE, remaining)
             chunk_data == read_file_chunk(fs, path, current_offset, chunk_size, "none")
         IN  IF chunk_data.exc # "none" THEN Raised(chunk_data.exc, fs, out)
             ELSE IF chan # "open" THEN Raised(chan, fs, out)
             ELSE read_file_loop(fs, path, current_offset + chunk_size,
                                 remaining - chunk_size, chan,
                                 Append(out, Packet(RESPONSE_FILE_CHUNK,
                                                    IF remaining <= chunk_size
                                                    THEN FLAG_FINAL ELSE FLAG_CONTINUATION,
                                                    chunk_data.value)))

\* _handle_read_file from "total_size = file_info['size']" on
read_file_sized(req, fs, chan, total_size) ==
    read_file_loop(fs, req.path, req.offset,
                   Min(IF req.length < 0 THEN total_size ELSE req.length,
                       total_size - req.offset),
                   chan, <<>>)

read_file_info(req, fs, chan, file_info) ==
    IF file_info.exc # "none" THEN Raised(file_info.exc, fs, <<>>)
    ELSE read_file_sized(req, fs, chan, file_info.value.size)

read_file_of(req, fs, fault, chan) ==
    IF req.exc # "none" THEN Raised(req.exc, fs, <<>>)
    ELSE read_file_info(req.value, fs, chan, get_file_info(fs, req.value.path, fault))

_handle_read_file(p, fs, fault, chan) ==
    read_file_of(deserialize_file_read_request(p.payload), fs, fault, chan)

create_dir_of(path, fs, fault) ==
    IF path.exc # "none" THEN Raised(path.exc, fs, <<>>)
    ELSE LET info == create_directory(fs, path.value, fault)
         IN  answer(info, RESPONSE_DATA, serialize_file_item(info.value))

_handle_create_dir(p, fs, fault, chan) ==
    create_dir_of(deserialize_path(p.payload), fs, fault)

delete_of(path, fs, fault) ==
    IF path.exc # "none" THEN Raised(path.exc, fs, <<>>)
    ELSE answer(delete(fs, path.value, fault), RESPONSE_OK, <<>>)

_handle_delete(p, fs, fault, chan) ==
    delete_of(deserialize_path(p.payload), fs, fault)

rename_of(req, fs, fault) ==
    IF req.exc # "none" THEN Raised(req.exc, fs, <<>>)
    ELSE LET info == rename(fs, req.value[1], req.value[2], fault)
         IN  answer(info, RESPONSE_DATA, serialize_file_item(info.value))

_handle_rename(p, fs, fault, chan) ==
    rename_of(deserialize_rename(p.payload), fs, fault)

search_of(req, fs, fault) ==
    IF req.exc # "none" THEN Raised(req.exc, fs, <<>>)
    ELSE LET found == search_files(fs, req.value[1], req.value[2], fault)
         IN  answer(found, RESPONSE_DATA, serialize_file_list(found.value))

_handle_search(p, fs, fault, chan) ==
    search_of(deserialize_search(p.payload), fs, fault)

_handle_get_drives(p, fs, fault, chan) ==
    Returned(Packet(RESPONSE_DATA, FLAG_NONE, serialize_drive_list(get_drives)), fs, <<>>)

storage_info_payload(info) ==
    serialize_storage_info(info[1], info[2], info[3], info[4])

storage_info_of(path, fs, fault) ==
    IF path.exc # "none" THEN Raised(path.exc, fs, <<>>)
    ELSE LET info == get_storage_info(fs, path.value, fault)
         IN  answer(info, RESPONSE_DATA, storage_info_payload(info.value))

_handle_get_storage_info(p, fs, fault, chan) ==
    storage_info_of(IF p.payload # <<>> THEN deserialize_path(p.payload) ELSE Ok(<<>>),
                    fs, fault)

\* flags & Flags.FINAL
HasFinal(flags) == (flags \div FLAG_FINAL) % 2 = 1

\* _handle_write_file without the RESPONSE_OK that signals readiness
write_file_of_NoReady(header, fs, chan) ==
    IF header.exc # "none" THEN Raised(header.exc, fs, <<>>)
    ELSE IF 0 < header.value.total_size
         THEN Awaiting([path |-> header.value.path,
                        total_size |-> header.value.total_size,
                        received |-> 0],
                       fs, <<>>)
    ELSE Returned(Packet(RESPONSE_OK, FLAG_NONE, <<>>), fs, <<>>)

\* _handle_write_file up to its first self._receive_data()
write_file_of(header, fs, chan) ==
    IF header.exc # "none" THEN Raised(header.exc, fs, <<>>)
    ELSE IF chan # "open" THEN Raised(chan, fs, <<>>)
    ELSE IF 0 < header.value.total_size
         THEN Awaiting([path |-> header.value.path,
                        total_size |-> header.value.total_size,
                        received |-> 0],
                       fs, <<Packet(RESPONSE_OK, FLAG_NONE, <<>>)>>)
    ELSE Returned(Packet(RESPONSE_OK, FLAG_NONE, <<>>), fs,
                  <<Packet(RESPONSE_OK, FLAG_NONE, <<>>)>>)

_handle_write_file(p, fs, fault, chan) ==
    write_file_of(deserialize_file_write_header(p.payload), fs, chan)

\* the loop without "if chunk_packet.flags & Flags.FINAL: break"
chunk_written_IgnoresFinal(w, chunk_packet, written, received) ==
    IF written.exc # "none" THEN Raised(written.exc, written.files, <<>>)
    ELSE IF received < w.total_size
    THEN Awaiting([w EXCEPT !.received = received], written.files, <<>>)
    ELSE Returned(Packet(RESPONSE_OK, FLAG_NONE, <<>>), written.files, <<>>)

\* _handle_write_file after write_file_chunk came back as written
chunk_written(w, chunk_packet, written, received) ==
    IF written.exc # "none" THEN Raised(written.exc, written.files, <<>>)
    ELSE IF ~HasFinal(chunk_packet.flags) /\ received < w.total_size
    THEN Awaiting([w EXCEPT !.received = received], written.files, <<>>)
    ELSE Returned(Packet(RESPONSE_OK, FLAG_NONE, <<>>), written.files, <<>>)

\* the loop writing every chunk at offset 0
chunk_parsed_OffsetZero(w, chunk_packet, fs, fault) ==
    IF chunk_packet = None
    THEN Returned(_error_response(PROTOCOL_ERROR, InvalidChunkText), fs, <<>>)
    ELSE chunk_written(w, chunk_packet,
                       write_file_chunk(fs, w.path, chunk_packet.payload, 0,
                                        w.received = 0, fault),
                       w.received + Len(chunk_packet.payload))

\* _handle_write_file after Packet.from_bytes(chunk_data)
chunk_parsed(w, chunk_packet, fs, fault) ==
    IF chunk_packet = None
    THEN Returned(_error_response(PROTOCOL_ERROR, InvalidChunkText), fs, <<>>)
    ELSE chunk_written(w, chunk_packet,
                       write_file_chunk(fs, w.path, chunk_packet.payload, w.received,
                                        w.received = 0, fault),
                       w.received + Len(chunk_packet.payload))

\* the loop taking a missing chunk for an invalid one
write_file_chunk_step_NoLostCheck(w, chunk_data, fs, fault) ==
    IF chunk_data = None \/ chunk_data.value = <<>>
    THEN Returned(_error_response(PROTOCOL_ERROR, InvalidChunkText), fs, <<>>)
    ELSE chunk_parsed(w, from_bytes(chunk_data.value), fs, fault)

\* _handle_write_file from the return of self._receive_data() with
\* chunk_data to the next self._receive_data() or to its return
write_file_chunk_step(w, chunk_data, fs, fault) ==
    IF chunk_data = None \/ chunk_data.value = <<>>
    THEN Returned(_error_response(IO_ERROR, ConnectionLostText), fs, <<>>)
    ELSE chunk_parsed(w, from_bytes(chunk_data.value), fs, fault)

(***************************************************************************)
(* Exceptions.  An except clause catches the classes that have its class   *)
(* among their bases.                                                      *)
(***************************************************************************)
Bases(e) ==
    CASE e \in {"FileNotFoundError", "PermissionError", "FileExistsError",
                "IsADirectoryError", "NotADirectoryError", "socket.timeout"}
           -> {e, "OSError", "Exception"}
      [] e \in {"ConnectionResetError", "BrokenPipeError"}
           -> {e, "ConnectionError", "OSError", "Exception"}
      [] e = "UnicodeDecodeError" -> {e, "ValueError", "Exception"}
      [] e = "USBError" -> {e, "OSError", "Exception"}
      [] OTHER -> {e, "Exception"}

\* whether a clause of clauses catches e
IsCaught(clauses, e) == \E i \in 1..Len(clauses) : clauses[i][1] \in Bases(e)

\* what the first clause of clauses that catches e says; "uncaught" if none
RECURSIVE Caught(_, _)
Caught(clauses, e) ==
    IF clauses = <<>> THEN "uncaught"
    ELSE IF Head(clauses)[1] \in Bases(e) THEN Head(clauses)[2]
    ELSE Caught(Tail(clauses), e)

(***************************************************************************)
(* UsbServer._handle_packet                                                *)
(***************************************************************************)
\* the if/elif chain on packet.command: the branch taken
handler_for_AllOthersDisconnect(command) ==
    CASE command = HANDSHAKE -> "_handle_handshake"
      [] command = LIST_DIR -> "_handle_list_dir"
      [] command = GET_FILE_INFO -> "_handle_get_file_info"
      [] command = READ_FILE -> "_handle_read_file"
      [] command = WRITE_FILE -> "_handle_write_file"
      [] command = CREATE_DIR -> "_handle_create_dir"
      [] command = DELETE -> "_handle_delete"
      [] command = RENAME -> "_handle_rename"
      [] command = SEARCH -> "_handle_search"
      [] command = GET_DRIVES -> "_handle_get_drives"
      [] command = GET_STORAGE_INFO -> "_handle_get_storage_info"
      [] OTHER -> "disconnect"

\* the chain without its branch for Command.DISCONNECT
handler_for_NoDisconnect(command) ==
    CASE command = HANDSHAKE -> "_handle_handshake"
      [] command = LIST_DIR -> "_handle_list_dir"
      [] command = GET_FILE_INFO -> "_handle_get_file_info"
      [] command = READ_FILE -> "_handle_read_file"
      [] command = WRITE_FILE -> "_handle_write_file"
      [] command = CREATE_DIR -> "_handle_create_dir"
      [] command = DELETE -> "_handle_delete"
      [] command = RENAME -> "_handle_rename"
      [] command = SEARCH -> "_handle_search"
      [] command = GET_DRIVES -> "_handle_get_drives"
      [] command = GET_STORAGE_INFO -> "_handle_get_storage_info"
      [] OTHER -> "unknown"

handler_for(command) ==
    CASE command = HANDSHAKE -> "_handle_handshake"
      [] command = LIST_DIR -> "_handle_list_dir"
      [] command = GET_FILE_INFO -> "_handle_get_file_info"
      [] command = READ_FILE -> "_handle_read_file"
      [] command = WRITE_FILE -> "_handle_write_file"
      [] command = CREATE_DIR -> "_handle_create_dir"
      [] command = DELETE -> "_handle_delete"
      [] command = RENAME -> "_handle_rename"
      [] command = SEARCH -> "_handle_search"
      [] command = GET_DRIVES -> "_handle_get_drives"
      [] command = GET_STORAGE_INFO -> "_handle_get_storage_info"
      [] command = DISCONNECT -> "disconnect"
      [] OTHER -> "unknown"

\* the body of the try statement
try_body(p, fs, fault, chan) ==
    LET h == handler_for(p.command)
    IN  CASE h = "_handle_handshake" -> _handle_handshake(p, fs, fault, chan)
          [] h = "_handle_list_dir" -> _handle_list_dir(p, fs, fault, chan)
          [] h = "_handle_get_file_info" -> _handle_get_file_info(p, fs, fault, chan)
          [] h = "_handle_read_file" -> _handle_read_file(p, fs, fault, chan)
          [] h = "_handle_write_file" -> _handle_write_file(p, fs, fault, chan)
          [] h = "_handle_create_dir" -> _handle_create_dir(p, fs, fault, chan)
          [] h = "_handle_delete" -> _handle_delete(p, fs, fault, chan)
          [] h = "_handle_rename" -> _handle_rename(p, fs, fault, chan)
          [] h = "_handle_search" -> _handle_search(p, fs, fault, chan)
          [] h = "_handle_get_drives" -> _handle_get_drives(p, fs, fault, chan)
          [] h = "_handle_get_storage_info" -> _handle_get_storage_info(p, fs, fault, chan)
          [] h = "disconnect" -> Returned(Packet(RESPONSE_OK, FLAG_NONE, <<>>), fs, <<>>)
          [] OTHER -> Returned(_error_response(UNKNOWN_COMMAND,
                                               UnknownCommandText \o DecimalText(p.command)),
                               fs, <<>>)

\* the except clauses of the try statement, in order, without the clause
\* for FileExistsError
except_clauses_NoFileExists ==
    << <<"FileNotFoundError", FILE_NOT_FOUND>>,
       <<"PermissionError", PERMISSION_DENIED>>,
       <<"Exception", IO_ERROR>> >>

\* the except clauses of the try statement, in order
except_clauses ==
    << <<"FileNotFoundError", FILE_NOT_FOUND>>,
       <<"PermissionError", PERMISSION_DENIED>>,
       <<"FileExistsError", ALREADY_EXISTS>>,
       <<"Exception", IO_ERROR>> >>

\* what leaves the try statement when its body went as h says:
\* [raised, escaped, response, files, out, wr]
try_except(h) ==
    LET caught == IsCaught(except_clauses, h.exc)
    IN  [raised |-> h.exc,
         escaped |-> IF h.exc # "none" /\ ~caught THEN h.exc ELSE "none",
         response |-> IF h.exc = "none" THEN h.response
                      ELSE IF ~caught THEN None
                      ELSE _error_response(Caught(except_clauses, h.exc), ExceptionText),
         files |-> h.files, out |-> h.out, wr |-> h.wr]

_handle_packet(p, fs, fault, chan) == try_except(try_body(p, fs, fault, chan))

(***************************************************************************)
(* Codec scenario: a packet is encoded, the buffer may be damaged on the   *)
(* way (one byte overwritten, or the tail cut off), and is decoded.        *)
(***************************************************************************)
CommandSample == {1, 127, 255}
FlagsSample == {0, 8}
PayloadAlphabet == {0, 80, 255}
TamperBytes == {0, 80, 255}

RECURSIVE SeqsUpTo(_, _)
SeqsUpTo(S, n) ==
    IF n = 0 THEN {<<>>}
    ELSE LET shorter == SeqsUpTo(S, n - 1)
         IN  shorter \cup {Append(s, x) : s \in {t \in shorter : Len(t) = n - 1}, x \in S}

Payloads == SeqsUpTo(PayloadAlphabet, MaxPayloadLen)

CodecInit ==
    /\ cpc = "input"
    /\ pkt \in {Packet(c, f, p) : c \in CommandSample, f \in FlagsSample, p \in Payloads}
    /\ buf = <<>>
    /\ tamper = "none"
    /\ decoded = Unset
    /\ ServerIdle

Encode ==
    /\ cpc = "input"
    /\ buf' = to_bytes(pkt)
    /\ cpc' = "encoded"
    /\ UNCHANGED <<pkt, tamper, decoded, svars>>

Corrupt ==
    /\ cpc = "encoded"
    /\ \E i \in 1..Len(buf), v \in TamperBytes :
          /\ v # buf[i]
          /\ buf' = [buf EXCEPT ![i] = v]
    /\ tamper' = "corrupt"
    /\ cpc' = "tampered"
    /\ UNCHANGED <<pkt, decoded, svars>>

Truncate ==
    /\ cpc = "encoded"
    /\ \E n \in 0..(Len(buf) - 1) : buf' = Slice(buf, 0, n)
    /\ tamper' = "truncate"
    /\ cpc' = "tampered"
    /\ UNCHANGED <<pkt, decoded, svars>>

Decode ==
    /\ cpc \in {"encoded", "tampered"}
    /\ decoded' = from_bytes(buf)
    /\ cpc' = "decoded"
    /\ UNCHANGED <<pkt, buf, tamper, svars>>

CodecNext == Encode \/ Corrupt \/ Truncate \/ Decode

SpecCodec == CodecInit /\ [][CodecNext]_vars

(***************************************************************************)
(* Codec scenario with one bit of the encoded frame flipped on the way.    *)
(* CraftedPacket carries as its payload the checksum of its own header     *)
(* with length 0.                                                          *)
(***************************************************************************)
CraftedPacket ==
    Packet(1, 0, pack_u32(python_crc32(MAGIC \o <<1, 0, 0, 0, 0, 0>>)))

\* b ^ (1 << k) on a byte
FlipBitOf(b, k) == IF (b \div (2 ^ k)) % 2 = 1 THEN b - 2 ^ k ELSE b + 2 ^ k

FlipInit ==
    /\ cpc = "input"
    /\ pkt \in {Packet(c, f, p) : c \in CommandSample, f \in FlagsSample, p \in Payloads}
                 \cup {CraftedPacket}
    /\ buf = <<>>
    /\ tamper = "none"
    /\ decoded = Unset
    /\ ServerIdle

FlipBit ==
    /\ cpc = "encoded"
    /\ \E i \in 1..Len(buf), k \in 0..7 : buf' = [buf EXCEPT ![i] = FlipBitOf(@, k)]
    /\ tamper' = "flip"
    /\ cpc' = "tampered"
    /\ UNCHANGED <<pkt, decoded, svars>>

FlipNext == Encode \/ FlipBit \/ Decode

SpecFlip == FlipInit /\ [][FlipNext]_vars

(***************************************************************************)
(* The server with one connection.  The peer sends frames out of           *)
(* LoopFrames; the platform may fail a file system call (Faults) and the   *)
(* channel may fail (ChannelFaults).                                       *)
(***************************************************************************)
PathA == <<47, 97>>     \* "/a"
PathB == <<47, 98>>     \* "/b"

InitialFiles ==
    { <<>>,
      (PathA :> File(<<1, 2>>)),
      (PathA :> File(<<1, 2>>)) @@ (PathB :> Dir) }

Faults == {"none", "PermissionError", "OSError"}
TcpFaults == {"ConnectionResetError", "socket.timeout", "BrokenPipeError"}
UsbFaults == {"USBError"}

\* the payloads a client builds for READ_FILE, WRITE_FILE, RENAME and SEARCH
read_request(path, offset, length) ==
    serialize_path(path) \o pack_u64(offset) \o pack_u64(length)
write_header(path, total_size, chunk_size) ==
    serialize_path(path) \o pack_u64(total_size) \o pack_u32(U32FromInt(chunk_size))
two_strings(a, b) == serialize_path(a) \o serialize_path(b)

\* a frame that is no packet: 14 bytes without the magic
BadFrame == <<0, 0, 0, 0, 0, 0, 0, 0, 0, 0, 0, 0, 0, 0>>

LoopPackets ==
    { Packet(HANDSHAKE, FLAG_NONE, <<65>>),
      Packet(127, FLAG_NONE, <<>>),
      Packet(GET_DRIVES, FLAG_NONE, <<>>),
      Packet(DELETE, FLAG_NONE, serialize_path(PathA)),
      Packet(READ_FILE, FLAG_NONE, read_request(PathA, 0, 10)),
      Packet(WRITE_FILE, FLAG_NONE, write_header(PathB, 2, 1)),
      Packet(RESPONSE_FILE_CHUNK, FLAG_CONTINUATION, <<7>>),
      Packet(RESPONSE_FILE_CHUNK, FLAG_FINAL, <<9>>),
      Packet(DISCONNECT, FLAG_NONE, <<>>) }

\* a GET_DRIVES frame whose last checksum byte was changed on the way
BadChecksumFrame ==
    [to_bytes(Packet(GET_DRIVES, FLAG_NONE, <<>>)) EXCEPT ![14] = (@ + 1) % 256]

LoopFrames == {to_bytes(p) : p \in LoopPackets} \cup {BadFrame, BadChecksumFrame}

\* what a receive call may return while the channel is open
Received == {Bytes(f) : f \in LoopFrames} \cup {None}

HandshakeReplies ==
    {None, Bytes(BadFrame),
     Bytes(to_bytes(Packet(RESPONSE_OK, FLAG_NONE, <<79, 75>>)))}

max_empty_reads == 3

\* "consecutive_empty_reads += 1" and the test that follows it, n being the
\* count before the empty read
empty_read_verdict_Two(n) == IF n + 1 >= 2 THEN "break" ELSE "continue"
empty_read_verdict(n) == IF n + 1 >= max_empty_reads THEN "break" ELSE "continue"

\* the methods class UsbServer defines
UsbServerMethods ==
    {"__init__", "start", "_start_auto_mode", "_print_adb_installation_guide",
     "_print_connection_failure_guide", "_start_usb_mode_with_fallback",
     "_print_usb_driver_error_guide", "_start_adb_mode", "_start_forward_mode",
     "_connect_via_adb_forward", "_send_handshake_as_client",
     "_handle_forward_mode_connection", "_receive_packet_data", "_recv_exact",
     "_start_tcp_server", "_start_tcp_server_with_adb_reverse",
     "_print_port_conflict_guide", "stop", "_start_simulation_mode",
     "_start_usb_mode", "_handle_connection", "_receive_data", "_send_data",
     "_handle_packet", "_handle_handshake", "_handle_list_dir",
     "_handle_get_file_info", "_handle_read_file", "_handle_write_file",
     "_handle_create_dir", "_handle_delete", "_handle_rename", "_handle_search",
     "_handle_get_drives", "_handle_get_storage_info", "_error_response"}

\* evaluating self.<name>: the exception it raises, "none" if it raises none
getattr_self(name) == IF name \in UsbServerMethods THEN "none" ELSE "AttributeError"

\* Command(x).name: the exception it raises, "none" if it raises none
Command_name(x) == IF x \in CommandValues THEN "none" ELSE "ValueError"

\* the except clauses of the two loops, in order
connection_clauses ==
    << <<"ConnectionResetError", "break">>,
       <<"socket.timeout", "break">>,
       <<"Exception", "continue">> >>
forward_clauses ==
    << <<"socket.timeout", "continue">>,
       <<"ConnectionResetError", "break">>,
       <<"Exception", "break">> >>

loop_clauses ==
    IF loop = "_handle_forward_mode_connection" THEN forward_clauses
    ELSE connection_clauses

\* where the thread goes on a "continue" or a "break" of its loop, and what
\* self.sim_conn is then (the forward loop closes it on its way out)
AfterLoopStep(verdict) ==
    [hpc |-> IF verdict = "continue" THEN "recv" ELSE "ended",
     sim_conn |-> IF verdict # "continue" /\ loop = "_handle_forward_mode_connection"
                  THEN "none" ELSE sim_conn]

ServerInit ==
    /\ CodecIdle
    /\ mode = "none" /\ loop = "none" /\ channel = "open" /\ running = TRUE
    /\ sim_conn = "none" /\ hpc = "listening" /\ consecutive_empty_reads = 0
    /\ reads = 0 /\ frame = None /\ packet = None /\ handled = None
    /\ raised = "none" /\ escaped = "none" /\ response = None /\ sent = <<>>
    /\ loop_exc = "none" /\ wr = None /\ chunks = <<>>
    /\ provisioner = None /\ attempts = <<>> /\ calls = <<>> /\ attempt = 0 /\ slept = 0
    /\ wire = <<>> /\ got = <<>> /\ handling = 0
    /\ consecutive_errors = 0 /\ polls = <<>>
    /\ files \in InitialFiles

\* a transport is acquired: a client connected to the TCP server ("adb",
\* "simulate"), the USB device was opened ("usb"), or the server connected
\* through the ADB forward tunnel ("forward")
Connect ==
    /\ hpc = "listening"
    /\ handling' = handling + 1
    /\ \E m \in {"adb", "simulate", "usb", "forward"} :
          /\ mode' = m
          /\ loop' = IF m = "forward" THEN "_handle_forward_mode_connection"
                     ELSE "_handle_connection"
          /\ sim_conn' = IF m = "usb" THEN "none" ELSE "open"
          /\ hpc' = IF m = "forward" THEN "handshake" ELSE "recv"
    /\ UNCHANGED <<cvars, provisioner, attempts, fvars, rvars, uvars, chunks, channel, running, consecutive_empty_reads, reads, frame,
                   packet, handled, raised, escaped, response, sent, loop_exc, wr,
                   files>>

\* the peer goes away, or the channel breaks
PeerFails ==
    /\ hpc \in {"handshake", "recv", "dispatch", "wchunk", "send"}
    /\ channel = "open"
    /\ channel' \in (IF mode = "usb" THEN UsbFaults ELSE TcpFaults)
    /\ UNCHANGED <<cvars, avars, chunks, mode, loop, running, sim_conn, hpc, consecutive_empty_reads,
                   reads, frame, packet, handled, raised, escaped, response, sent,
                   loop_exc, wr, files>>

\* the packet _send_handshake_as_client builds
handshake_packet_ResponseOk == Packet(RESPONSE_OK, FLAG_NONE, ForwardIdentity)
handshake_packet == Packet(HANDSHAKE, FLAG_NONE, ForwardIdentity)

\* _send_handshake_as_client: a sendall that raises leaves the function;
\* the reply is only logged
SendHandshake ==
    /\ hpc = "handshake"
    /\ IF channel # "open"
       THEN /\ loop_exc' = channel
            /\ hpc' = "failed"
            /\ UNCHANGED <<sent, frame>>
       ELSE /\ sent' = <<handshake_packet>>
            /\ frame' \in HandshakeReplies
            /\ hpc' = "recv"
            /\ UNCHANGED loop_exc
    /\ UNCHANGED <<cvars, avars, chunks, mode, loop, channel, running, sim_conn,
                   consecutive_empty_reads, reads, packet, handled, raised, escaped,
                   response, wr, files>>

\* one pass of the loop from "while self.running" to the call of
\* _handle_packet (or to the continue or break that comes before it);
\* d is what _receive_data (_receive_packet_data in the forward loop)
\* returns: a frame, or None when the channel gave nothing
Receive ==
    /\ hpc = "recv" /\ running /\ reads < MaxReads
    /\ \E d \in (IF channel = "open" THEN Received ELSE {None}) :
          LET p == IF d = None THEN None ELSE from_bytes(d.value)
              exc == IF p = None THEN "none"
                     ELSE IF loop = "_handle_forward_mode_connection"
                     THEN getattr_self("_process_packet")
                     ELSE Command_name(p.command)
              verdict == IF d = None
                         THEN empty_read_verdict(consecutive_empty_reads)
                         ELSE IF p = None THEN "continue"
                         ELSE IF exc # "none" THEN Caught(loop_clauses, exc)
                         ELSE IF loop = "_handle_forward_mode_connection" THEN "continue"
                         ELSE "dispatch"
          IN  /\ frame' = d
              /\ packet' = p
              /\ loop_exc' = exc
              /\ consecutive_empty_reads' =
                    IF d = None THEN consecutive_empty_reads + 1 ELSE 0
              /\ hpc' = IF verdict = "dispatch" THEN "dispatch"
                        ELSE AfterLoopStep(verdict).hpc
              /\ sim_conn' = IF verdict = "dispatch" THEN sim_conn
                             ELSE AfterLoopStep(verdict).sim_conn
    /\ reads' = reads + 1
    /\ handled' = None /\ raised' = "none" /\ escaped' = "none"
    /\ response' = None /\ sent' = <<>>
    /\ UNCHANGED <<cvars, avars, chunks, mode, loop, channel, running, wr, files>>

\* where the thread is after _handle_packet came back with r
AfterDispatch(r) ==
    IF r.wr # None THEN "wchunk"
    ELSE IF loop = "none" THEN "returned"
    ELSE IF r.escaped # "none" THEN AfterLoopStep(Caught(loop_clauses, r.escaped)).hpc
    ELSE "send"

\* self._handle_packet(packet), up to its return or to the first
\* _receive_data of _handle_write_file
Dispatch ==
    /\ hpc \in {"dispatch", "call"}
    /\ \E fault \in Faults :
          \E r \in {_handle_packet(packet, files, fault, channel)} :
              /\ handled' = packet
              /\ raised' = r.raised
              /\ escaped' = r.escaped
              /\ response' = r.response
              /\ sent' = sent \o r.out
              /\ wr' = r.wr
              /\ files' = r.files
              /\ hpc' = AfterDispatch(r)
              /\ loop_exc' = r.escaped
    /\ chunks' = <<>>
    /\ UNCHANGED <<cvars, avars, mode, loop, channel, running, sim_conn,
                   consecutive_empty_reads, reads, frame, packet>>

\* _handle_write_file: self._receive_data() returns chunk_data, and the
\* handler goes on to its next _receive_data or returns through the
\* except clauses of _handle_packet
WriteChunk ==
    /\ hpc = "wchunk" /\ reads < MaxReads
    /\ \E chunk_data \in (IF channel = "open" THEN Received ELSE {None}),
          fault \in Faults :
          \E r \in {try_except(write_file_chunk_step(wr, chunk_data, files, fault))} :
              /\ raised' = r.raised
              /\ escaped' = r.escaped
              /\ response' = r.response
              /\ wr' = r.wr
              /\ files' = r.files
              /\ hpc' = AfterDispatch(r)
              /\ loop_exc' = r.escaped
              /\ frame' = chunk_data
              /\ chunks' = IF chunk_data = None \/ from_bytes(chunk_data.value) = None
                            THEN chunks
                            ELSE Append(chunks, from_bytes(chunk_data.value))
    /\ reads' = reads + 1
    /\ UNCHANGED <<cvars, avars, mode, loop, channel, running, sim_conn,
                   consecutive_empty_reads, packet, handled, sent>>

\* "if response:" (a Packet is always true) and self._send_data(...)
Send ==
    /\ hpc = "send"
    /\ IF channel = "open"
       THEN /\ sent' = Append(sent, response)
            /\ hpc' = "recv"
            /\ UNCHANGED <<loop_exc, sim_conn>>
       ELSE /\ loop_exc' = channel
            /\ hpc' = AfterLoopStep(Caught(loop_clauses, channel)).hpc
            /\ sim_conn' = AfterLoopStep(Caught(loop_clauses, channel)).sim_conn
            /\ UNCHANGED sent
    /\ UNCHANGED <<cvars, avars, chunks, mode, loop, channel, running, consecutive_empty_reads,
                   reads, frame, packet, handled, raised, escaped, response, wr, files>>

\* Ctrl+C: KeyboardInterrupt is no Exception, so it leaves the loop and
\* start(); main() then calls stop()
KeyboardInterrupt ==
    /\ hpc \in {"handshake", "recv", "dispatch", "wchunk", "send"}
    /\ running' = FALSE
    /\ sim_conn' = IF sim_conn = "open" THEN "closed" ELSE sim_conn
    /\ hpc' = "stopped"
    /\ UNCHANGED <<cvars, avars, chunks, mode, loop, channel, consecutive_empty_reads, reads, frame,
                   packet, handled, raised, escaped, response, sent, loop_exc, wr,
                   files>>

Next == Connect \/ PeerFails \/ SendHandshake \/ Receive \/ Dispatch \/ WriteChunk
          \/ Send \/ KeyboardInterrupt

Spec == ServerInit /\ [][Next]_vars

(***************************************************************************)
(* UsbServer.start() in 'auto' mode.  The platform is the provisioner:     *)
(*   adb: "missing" (no ADB executable), "not_ready" (no ready device),    *)
(*        "bind_failed" (bind of 127.0.0.1:5555 raises OSError),           *)
(*        "reverse_failed" (auto_setup_adb_reverse fails), "ok";           *)
(*   usb: "ImportError" (no pyusb), "NoBackendError", "errors" (the        *)
(*        device keeps failing), "no_device", "device";                    *)
(*   tcp: "ok", or the OSError the bind of 0.0.0.0:5555 raises.            *)
(***************************************************************************)
AdbOutcomes == {"missing", "not_ready", "bind_failed", "reverse_failed", "ok"}
UsbOutcomes == {"ImportError", "NoBackendError", "errors", "no_device", "device"}
TcpOutcomes == {"ok", "OSError"}

Provisioners == [adb : AdbOutcomes, usb : UsbOutcomes, tcp : TcpOutcomes]

\* where start() is once a step of it is over: self.mode, the position of
\* the thread, the modes tried and the exception that left start()
Landing(m, h, a, e) == [mode |-> m, hpc |-> h, attempts |-> a, loop_exc |-> e]

\* self.mode = 'simulate'; self._start_simulation_mode(), up to its accept
_start_simulation_mode(prov, a) ==
    IF prov.tcp = "ok"
    THEN Landing("simulate", "listening", Append(a, "simulate"), "none")
    ELSE Landing("simulate", "failed", Append(a, "simulate"), prov.tcp)

\* _start_auto_mode from "Try USB mode" on, up to the device search of
\* _start_usb_mode_with_fallback
auto_usb(prov, a) ==
    IF prov.usb \in {"ImportError", "NoBackendError"}
    THEN _start_simulation_mode(prov, Append(a, "usb"))
    ELSE Landing("usb", "usb_wait", Append(a, "usb"), "none")

\* _start_tcp_server_with_adb_reverse, up to its accept
_start_tcp_server_with_adb_reverse(prov, a) ==
    IF prov.adb = "bind_failed" THEN Landing("adb", "start_returned", a, "none")
    ELSE Landing("adb", "listening", a, "none")

_start_auto_mode(prov) ==
    IF prov.adb \in {"missing", "not_ready"} THEN auto_usb(prov, <<"adb">>)
    ELSE _start_tcp_server_with_adb_reverse(prov, <<"adb">>)

\* _start_auto_mode after _start_usb_mode_with_fallback returned False:
\* the first _start_simulation_mode is inside the try statement, so a bind
\* that raises is caught and the fallback below the try runs once more
auto_usb_failed(prov, a) ==
    IF prov.tcp = "ok" THEN _start_simulation_mode(prov, a)
    ELSE _start_simulation_mode(prov, Append(a, "simulate"))

AutoInit ==
    /\ CodecIdle
    /\ mode = "auto" /\ loop = "none" /\ channel = "open" /\ running = TRUE
    /\ sim_conn = "none" /\ hpc = "start" /\ consecutive_empty_reads = 0
    /\ reads = 0 /\ frame = None /\ packet = None /\ handled = None
    /\ raised = "none" /\ escaped = "none" /\ response = None /\ sent = <<>>
    /\ loop_exc = "none" /\ wr = None /\ chunks = <<>> /\ attempts = <<>>
    /\ calls = <<>> /\ attempt = 0 /\ slept = 0
    /\ wire = <<>> /\ got = <<>> /\ handling = 0
    /\ consecutive_errors = 0 /\ polls = <<>>
    /\ provisioner \in Provisioners
    /\ files \in InitialFiles

\* start() with self.mode = 'auto', up to the point where it waits
StartAutoMode ==
    /\ hpc = "start" /\ mode = "auto"
    /\ \E r \in {_start_auto_mode(provisioner)} :
          /\ mode' = r.mode /\ hpc' = r.hpc
          /\ attempts' = r.attempts /\ loop_exc' = r.loop_exc
    /\ UNCHANGED <<cvars, rvars, uvars, handling, fvars, provisioner, loop, channel, running, sim_conn,
                   consecutive_empty_reads, reads, frame, packet, handled, raised,
                   escaped, response, sent, wr, chunks, files>>

\* _start_usb_mode_with_fallback: the device is found and configured, or
\* fails max_consecutive_errors times in a row (with no device it keeps
\* searching)
FindUsbDevice ==
    /\ hpc = "usb_wait" /\ provisioner.usb \in {"device", "errors"}
    /\ IF provisioner.usb = "device"
       THEN /\ hpc' = "recv" /\ loop' = "_handle_connection"
            /\ handling' = handling + 1
            /\ UNCHANGED <<mode, attempts, loop_exc>>
       ELSE /\ \E r \in {auto_usb_failed(provisioner, attempts)} :
                  /\ mode' = r.mode /\ hpc' = r.hpc
                  /\ attempts' = r.attempts /\ loop_exc' = r.loop_exc
            /\ UNCHANGED <<loop, handling>>
    /\ UNCHANGED <<cvars, rvars, uvars, fvars, provisioner, channel, running, sim_conn,
                   consecutive_empty_reads, reads, frame, packet, handled, raised,
                   escaped, response, sent, wr, chunks, files>>

\* self.sim_conn, addr = self.sim_socket.accept()
Accept_WhileHandling ==
    /\ hpc \in {"listening", "recv"} /\ running /\ mode \in {"adb", "simulate"}
    /\ sim_conn' = "open" /\ hpc' = "recv" /\ loop' = "_handle_connection"
    /\ channel' = "open" /\ consecutive_empty_reads' = 0
    /\ handling' = handling + 1
    /\ UNCHANGED <<cvars, provisioner, attempts, fvars, rvars, uvars, mode, running,
                   reads, frame, packet, handled, raised, escaped, response, sent,
                   loop_exc, wr, chunks, files>>

Accept ==
    /\ hpc = "listening" /\ running /\ mode \in {"adb", "simulate"}
    /\ sim_conn' = "open" /\ hpc' = "recv" /\ loop' = "_handle_connection"
    /\ channel' = "open" /\ consecutive_empty_reads' = 0
    /\ handling' = handling + 1
    /\ UNCHANGED <<cvars, provisioner, attempts, fvars, rvars, uvars, mode, running,
                   reads, frame, packet, handled, raised, escaped, response, sent,
                   loop_exc, wr, chunks, files>>

AutoNext == StartAutoMode \/ FindUsbDevice \/ Accept \/ PeerFails \/ KeyboardInterrupt

SpecAuto == AutoInit /\ [][AutoNext]_vars

(***************************************************************************)
(* The USB phase of 'auto' mode, turn by turn: _start_usb_mode_with_       *)
(* fallback searches for a device; a turn meets "NoBackendError" (the      *)
(* search raised it), "no_device", "error" (the device was found and its   *)
(* configuration raised, or it has no endpoints) or "device" (configured). *)
(***************************************************************************)
max_consecutive_errors == 5
MaxPolls == 7

PollOutcomes == {"NoBackendError", "no_device", "error", "device"}

\* the search loop keeping its count when no device is there
after_poll_NoReset(n, outcome) ==
    CASE outcome = "no_device" -> n
      [] outcome = "device" -> 0
      [] OTHER -> n + 1

\* consecutive_errors after a turn of the search loop that went on
after_poll(n, outcome) ==
    CASE outcome = "no_device" -> 0
      [] outcome = "device" -> 0
      [] OTHER -> n + 1

\* ADB gives no transport, the USB backend is there, and a device that
\* gets configured does not answer
UsbPhaseInit ==
    /\ CodecIdle
    /\ mode = "auto" /\ loop = "none" /\ running = TRUE
    /\ sim_conn = "none" /\ hpc = "start" /\ consecutive_empty_reads = 0
    /\ reads = 0 /\ frame = None /\ packet = None /\ handled = None
    /\ raised = "none" /\ escaped = "none" /\ response = None /\ sent = <<>>
    /\ loop_exc = "none" /\ wr = None /\ chunks = <<>> /\ attempts = <<>>
    /\ calls = <<>> /\ attempt = 0 /\ slept = 0
    /\ wire = <<>> /\ got = <<>> /\ handling = 0
    /\ consecutive_errors = 0 /\ polls = <<>>
    /\ channel \in UsbFaults
    /\ provisioner \in {p \in Provisioners :
                            /\ p.adb \in {"missing", "not_ready"}
                            /\ p.usb \in {"no_device", "device"}}
    /\ files = <<>>

\* one turn of "while self.running and consecutive_errors <
\* max_consecutive_errors", up to the next test of the loop, to the call of
\* _handle_connection, or to the fallback that follows "return False"
SearchUsbDevice ==
    /\ hpc = "usb_wait" /\ running
    /\ consecutive_errors < max_consecutive_errors
    /\ Len(polls) < MaxPolls
    /\ \E outcome \in PollOutcomes :
          /\ polls' = Append(polls, outcome)
          /\ IF outcome = "NoBackendError"
             THEN /\ \E r \in {auto_usb_failed(provisioner, attempts)} :
                        /\ mode' = r.mode /\ hpc' = r.hpc
                        /\ attempts' = r.attempts /\ loop_exc' = r.loop_exc
                  /\ UNCHANGED <<consecutive_errors, loop, handling,
                                 consecutive_empty_reads>>
             ELSE /\ consecutive_errors' = after_poll(consecutive_errors, outcome)
                  /\ hpc' = IF outcome = "device" THEN "recv" ELSE "usb_wait"
                  /\ loop' = IF outcome = "device" THEN "_handle_connection" ELSE loop
                  /\ handling' = IF outcome = "device" THEN handling + 1 ELSE handling
                  /\ consecutive_empty_reads' = 0
                  /\ UNCHANGED <<mode, attempts, loop_exc>>
    /\ UNCHANGED <<cvars, rvars, fvars, provisioner, channel, running, sim_conn,
                   reads, frame, packet, handled, raised, escaped, response, sent,
                   wr, chunks, files>>

\* the loop test fails on consecutive_errors: "return False", and
\* _start_auto_mode falls back
GiveUpUsb ==
    /\ hpc = "usb_wait" /\ running
    /\ consecutive_errors >= max_consecutive_errors
    /\ \E r \in {auto_usb_failed(provisioner, attempts)} :
          /\ mode' = r.mode /\ hpc' = r.hpc
          /\ attempts' = r.attempts /\ loop_exc' = r.loop_exc
    /\ UNCHANGED <<cvars, rvars, uvars, fvars, handling, provisioner, loop, channel,
                   running, sim_conn, consecutive_empty_reads, reads, frame, packet,
                   handled, raised, escaped, response, sent, wr, chunks, files>>

\* self._handle_connection() came back: the search loop goes round again
UsbConnectionOver ==
    /\ hpc = "ended" /\ mode = "usb" /\ running
    /\ hpc' = "usb_wait"
    /\ handling' = handling - 1
    /\ UNCHANGED <<cvars, rvars, uvars, fvars, provisioner, attempts, mode, loop,
                   channel, running, sim_conn, consecutive_empty_reads, reads, frame,
                   packet, handled, raised, escaped, response, sent, loop_exc, wr,
                   chunks, files>>

UsbPhaseNext ==
    StartAutoMode \/ SearchUsbDevice \/ GiveUpUsb \/ Receive \/ UsbConnectionOver

SpecUsbPhase == UsbPhaseInit /\ [][UsbPhaseNext]_vars

(***************************************************************************)
(* UsbServer.start() in an explicitly selected mode ('simulate', 'adb',    *)
(* 'forward', 'usb'), the loops it enters and what follows a connection.   *)
(***************************************************************************)
max_retries == 10
retry_delay == 2

\* check_adb_device_ready and setup_forward_for_server as 'forward' meets them
ForwardOutcomes == {"missing", "not_ready", "forward_failed", "ok"}

\* self.mode and the platform; of the platform only what the mode consults
\* varies (the TCP listener of simulation mode only where the mode falls
\* back to it)
Platform(a, u, t) == [adb |-> a, usb |-> u, tcp |-> t]
StartCases ==
    {<<"simulate", Platform("ok", "device", t)>> : t \in TcpOutcomes}
      \cup {<<"adb", Platform(a, "device", t)>> :
               a \in {"missing", "not_ready"}, t \in TcpOutcomes}
      \cup {<<"adb", Platform(a, "device", "ok")>> :
               a \in {"bind_failed", "reverse_failed", "ok"}}
      \cup {<<"forward", Platform(a, "device", t)>> :
               a \in {"missing", "not_ready"}, t \in TcpOutcomes}
      \cup {<<"forward", Platform(a, "device", "ok")>> : a \in {"forward_failed", "ok"}}
      \cup {<<"usb", Platform("ok", u, t)>> :
               u \in {"ImportError", "NoBackendError"}, t \in TcpOutcomes}
      \cup {<<"usb", Platform("ok", u, "ok")>> : u \in {"errors", "no_device", "device"}}

_start_adb_mode(prov) ==
    IF prov.adb \in {"missing", "not_ready"}
    THEN _start_simulation_mode(prov, <<"adb">>)
    ELSE _start_tcp_server_with_adb_reverse(prov, <<"adb">>)

\* setup_forward_for_server failing makes _connect_via_adb_forward return
_start_forward_mode(prov) ==
    IF prov.adb \in {"missing", "not_ready"}
    THEN _start_simulation_mode(prov, <<"forward">>)
    ELSE IF prov.adb = "forward_failed"
    THEN Landing("forward", "start_returned", <<"forward">>, "none")
    ELSE Landing("forward", "connecting", <<"forward">>, "none")

_start_usb_mode(prov) ==
    IF prov.usb \in {"ImportError", "NoBackendError"}
    THEN _start_simulation_mode(prov, <<"usb">>)
    ELSE Landing("usb", "usb_poll", <<"usb">>, "none")

start(m, prov) ==
    CASE m = "simulate" -> _start_simulation_mode(prov, <<>>)
      [] m = "adb" -> _start_adb_mode(prov)
      [] m = "forward" -> _start_forward_mode(prov)
      [] m = "usb" -> _start_usb_mode(prov)
      [] OTHER -> _start_auto_mode(prov)

\* the set-up calls each of them makes, in the order it makes them
simulation_calls == <<"bind 0.0.0.0:5555">>
adb_reverse_calls_TunnelFirst(prov) ==
    <<"cleanup_adb_port", "auto_setup_adb_reverse", "bind 127.0.0.1:5555">>
adb_reverse_calls(prov) ==
    <<"cleanup_adb_port", "bind 127.0.0.1:5555">>
      \o (IF prov.adb = "bind_failed" THEN <<>> ELSE <<"auto_setup_adb_reverse">>)
adb_forward_calls ==
    <<"cleanup_adb_port", "remove_reverse_forward", "setup_forward_for_server">>
start_calls(m, prov) ==
    CASE m = "simulate" -> simulation_calls
      [] m = "adb" ->
            <<"check_adb_device_ready">>
              \o (IF prov.adb \in {"missing", "not_ready"} THEN simulation_calls
                  ELSE adb_reverse_calls(prov))
      [] m = "forward" ->
            <<"check_adb_device_ready">>
              \o (IF prov.adb \in {"missing", "not_ready"} THEN simulation_calls
                  ELSE adb_forward_calls)
      [] m = "usb" ->
            <<"import usb.core">>
              \o (IF prov.usb = "ImportError" THEN simulation_calls
                  ELSE <<"usb.core.find">>
                         \o (IF prov.usb = "NoBackendError" THEN simulation_calls
                             ELSE <<>>))
      [] OTHER -> <<>>

StartInit ==
    /\ CodecIdle
    /\ \E c \in StartCases : mode = c[1] /\ provisioner = c[2]
    /\ loop = "none" /\ channel = "open" /\ running = TRUE
    /\ sim_conn = "none" /\ hpc = "start" /\ consecutive_empty_reads = 0
    /\ reads = 0 /\ frame = None /\ packet = None /\ handled = None
    /\ raised = "none" /\ escaped = "none" /\ response = None /\ sent = <<>>
    /\ loop_exc = "none" /\ wr = None /\ chunks = <<>> /\ attempts = <<>>
    /\ calls = <<>> /\ attempt = 0 /\ slept = 0
    /\ wire = <<>> /\ got = <<>> /\ handling = 0
    /\ consecutive_errors = 0 /\ polls = <<>>
    /\ files = (PathA :> File(<<1, 2>>))

\* start(), up to the point where it waits, returns or raises
Start ==
    /\ hpc = "start"
    /\ \E r \in {start(mode, provisioner)} :
          /\ mode' = r.mode /\ hpc' = r.hpc
          /\ attempts' = r.attempts /\ loop_exc' = r.loop_exc
    /\ calls' = start_calls(mode, provisioner)
    /\ UNCHANGED <<cvars, rvars, uvars, handling, provisioner, attempt, slept, loop, channel, running, sim_conn,
                   consecutive_empty_reads, reads, frame, packet, handled, raised,
                   escaped, response, sent, wr, chunks, files>>

\* _start_usb_mode, "while self.running": the device is found and
\* configured (with no device, or a USB error, it sleeps and searches on)
PollUsb ==
    /\ hpc = "usb_poll" /\ running /\ provisioner.usb = "device"
    /\ hpc' = "recv" /\ loop' = "_handle_connection"
    /\ channel' = "open" /\ consecutive_empty_reads' = 0
    /\ handling' = handling + 1
    /\ UNCHANGED <<cvars, provisioner, attempts, fvars, rvars, uvars, mode, running, sim_conn, reads, frame, packet,
                   handled, raised, escaped, response, sent, loop_exc, wr, chunks,
                   files>>

\* _start_usb_mode, "except usb.core.NoBackendError": break
LoseUsbBackend ==
    /\ hpc = "usb_poll" /\ running
    /\ hpc' = "start_returned"
    /\ UNCHANGED <<cvars, avars, mode, loop, channel, running, sim_conn,
                   consecutive_empty_reads, reads, frame, packet, handled, raised,
                   escaped, response, sent, loop_exc, wr, chunks, files>>

\* what sim_conn.connect may do
ConnectOutcomes == {"ok", "socket.timeout", "ConnectionRefusedError", "OSError"}

\* the except clauses of the retry loop after n connects: sleep unless it
\* was the last one, then the next connect or the loop's else clause
after_failed_attempt_AlwaysSleeps(n) ==
    [hpc |-> IF n < max_retries THEN "connecting" ELSE "start_returned",
     slept |-> retry_delay]
after_failed_attempt(n) ==
    [hpc |-> IF n < max_retries THEN "connecting" ELSE "start_returned",
     slept |-> IF n < max_retries THEN retry_delay ELSE 0]

\* _connect_via_adb_forward, "for attempt in range(max_retries)": one connect
ConnectForward ==
    /\ hpc = "connecting" /\ attempt < max_retries
    /\ attempt' = attempt + 1
    /\ \E outcome \in ConnectOutcomes :
          IF outcome = "ok"
          THEN /\ hpc' = "handshake" /\ loop' = "_handle_forward_mode_connection"
               /\ sim_conn' = "open" /\ channel' = "open"
               /\ consecutive_empty_reads' = 0
               /\ handling' = handling + 1
               /\ UNCHANGED <<slept, loop_exc>>
          ELSE /\ hpc' = after_failed_attempt(attempt + 1).hpc
               /\ slept' = slept + after_failed_attempt(attempt + 1).slept
               /\ loop_exc' = outcome
               /\ sim_conn' = "open"
               /\ UNCHANGED <<loop, channel, consecutive_empty_reads, handling>>
    /\ UNCHANGED <<cvars, rvars, uvars, provisioner, attempts, calls, mode, running, reads, frame,
                   packet, handled, raised, escaped, response, sent, wr, chunks,
                   files>>

\* _send_handshake_as_client raised inside the retry loop's try statement
AttemptFailed ==
    /\ hpc = "failed" /\ mode = "forward"
    /\ handling' = handling - 1
    /\ hpc' = after_failed_attempt(attempt).hpc
    /\ slept' = slept + after_failed_attempt(attempt).slept
    /\ UNCHANGED <<cvars, rvars, uvars, provisioner, attempts, calls, attempt, mode, loop, channel,
                   running, sim_conn, consecutive_empty_reads, reads, frame, packet,
                   handled, raised, escaped, response, sent, loop_exc, wr, chunks,
                   files>>

\* the connection loop was left: the accept loop and the device search go
\* round again, the retry loop is left by its break
ConnectionOver ==
    /\ hpc = "ended" /\ running
    /\ handling' = handling - 1
    /\ hpc' = CASE mode \in {"adb", "simulate"} -> "listening"
                [] mode = "usb" -> "usb_poll"
                [] OTHER -> "start_returned"
    /\ UNCHANGED <<cvars, provisioner, attempts, fvars, rvars, uvars, mode, loop, channel, running, sim_conn,
                   consecutive_empty_reads, reads, frame, packet, handled, raised,
                   escaped, response, sent, loop_exc, wr, chunks, files>>

StartNext ==
    Start \/ Accept \/ PollUsb \/ LoseUsbBackend \/ ConnectForward \/ AttemptFailed
      \/ SendHandshake \/ Receive \/ Dispatch \/ WriteChunk \/ Send \/ PeerFails
      \/ ConnectionOver \/ KeyboardInterrupt

SpecStart == StartInit /\ [][StartNext]_vars

(***************************************************************************)
(* stop() called while start() is running in an explicit mode.             *)
(***************************************************************************)
\* stop(), called from outside the thread that runs start()
Stop ==
    /\ running
    /\ hpc \in {"listening", "usb_poll", "connecting", "handshake", "recv", "dispatch",
                "wchunk", "send", "ended"}
    /\ running' = FALSE
    /\ sim_conn' = IF sim_conn = "open" THEN "closed" ELSE sim_conn
    /\ UNCHANGED <<cvars, avars, mode, loop, channel, hpc, consecutive_empty_reads,
                   reads, frame, packet, handled, raised, escaped, response, sent,
                   loop_exc, wr, chunks, files>>

\* "while self.running" found false: the connection loop is left, and the
\* accept loop or the device search is left and start() returns (accept on
\* the closed listening socket raises and is caught first)
LoopExit ==
    /\ ~running /\ hpc \in {"recv", "ended", "listening", "usb_poll"}
    /\ hpc' = IF hpc = "recv" THEN "ended" ELSE "start_returned"
    /\ sim_conn' = IF hpc = "recv" THEN AfterLoopStep("break").sim_conn ELSE sim_conn
    /\ handling' = IF hpc = "ended" THEN handling - 1 ELSE handling
    /\ UNCHANGED <<cvars, provisioner, attempts, fvars, rvars, uvars, mode, loop, channel,
                   running, consecutive_empty_reads, reads, frame, packet, handled,
                   raised, escaped, response, sent, loop_exc, wr, chunks, files>>

StopNext == StartNext \/ Stop \/ LoopExit

SpecStop == StartInit /\ [][StopNext]_vars

(***************************************************************************)
(* Reading one packet from a TCP socket: _receive_data (the accept loops)  *)
(* and _receive_packet_data (forward mode).  The peer has written two      *)
(* frames; they reach the socket in up to three segments.                  *)
(***************************************************************************)
\* sim_conn.recv(n): the bytes of the first segment, n of them at most;
\* with nothing on the wire, b"" if the peer has closed and socket.timeout
\* if it has not
recv(segs, n, ch) ==
    IF segs = <<>>
    THEN [exc |-> IF ch = "closed" THEN "none" ELSE "socket.timeout",
          data |-> <<>>, rest |-> <<>>]
    ELSE IF Len(Head(segs)) <= n
    THEN [exc |-> "none", data |-> Head(segs), rest |-> Tail(segs)]
    ELSE [exc |-> "none", data |-> SubSeq(Head(segs), 1, n),
          rest |-> <<SubSeq(Head(segs), n + 1, Len(Head(segs)))>> \o Tail(segs)]

\* what a receive call returned and what it left on the wire
Read(ret, rest) == [ret |-> ret, rest |-> rest]

\* int.from_bytes(header[6:10], 'little') + 4
remaining_of(header) ==
    IF header[10] >= 64 THEN Huge
    ELSE U32ToInt(unpack_u32(SubSeq(header, 7, 10))) + 4

\* _receive_data, "while remaining > 0"
RECURSIVE receive_rest(_, _, _, _)
receive_chunk(c, data, remaining, ch) ==
    IF c.exc # "none" \/ c.data = <<>> THEN Read(None, c.rest)
    ELSE receive_rest(c.rest, data \o c.data, remaining - Len(c.data), ch)
receive_rest(segs, data, remaining, ch) ==
    IF remaining <= 0 THEN Read(Bytes(data), segs)
    ELSE receive_chunk(recv(segs, Min(remaining, 4096), ch), data, remaining, ch)

\* _receive_data after "header = self.sim_conn.recv(10)"
receive_header(h, ch) ==
    IF h.exc # "none" \/ Len(h.data) < 10 THEN Read(None, h.rest)
    ELSE receive_rest(h.rest, h.data, remaining_of(h.data), ch)

\* _receive_data with self.sim_conn set
_receive_data(segs, ch) == receive_header(recv(segs, 10, ch), ch)

\* _recv_exact(count): [exc, data, rest], data being None or the bytes
RECURSIVE _recv_exact(_, _, _, _)
recv_exact_chunk(c, data, count, ch) ==
    IF c.exc # "none" THEN [exc |-> c.exc, data |-> None, rest |-> c.rest]
    ELSE IF c.data = <<>> THEN [exc |-> "none", data |-> None, rest |-> c.rest]
    ELSE _recv_exact(c.rest, data \o c.data, count, ch)
_recv_exact(segs, data, count, ch) ==
    IF Len(data) >= count THEN [exc |-> "none", data |-> Bytes(data), rest |-> segs]
    ELSE recv_exact_chunk(recv(segs, count - Len(data), ch), data, count, ch)

\* _receive_packet_data after the header was read, and after the rest was
packet_rest(header, r) ==
    IF r.exc # "none" \/ r.data = None \/ r.data = Bytes(<<>>) THEN Read(None, r.rest)
    ELSE Read(Bytes(header \o r.data.value), r.rest)
packet_header(h, ch) ==
    IF h.exc # "none" \/ h.data = None \/ h.data = Bytes(<<>>) THEN Read(None, h.rest)
    ELSE packet_rest(h.data.value,
                     _recv_exact(h.rest, <<>>, remaining_of(h.data.value), ch))
_receive_packet_data(segs, ch) == packet_header(_recv_exact(segs, <<>>, 10, ch), ch)

\* the two frames the peer wrote, and the ways they arrive
Frame1 == to_bytes(Packet(GET_DRIVES, FLAG_NONE, <<>>))
Frame2 == to_bytes(Packet(HANDSHAKE, FLAG_NONE, <<65>>))
Stream == Frame1 \o Frame2
Cut(c1, c2) ==
    SelectSeq(<<SubSeq(Stream, 1, c1), SubSeq(Stream, c1 + 1, c2),
                SubSeq(Stream, c2 + 1, Len(Stream))>>,
              LAMBDA seg : seg # <<>>)
Arrivals ==
    {Cut(c[1], c[2]) :
        c \in {d \in (1..Len(Stream)) \X (1..Len(Stream)) : d[1] <= d[2]}}

RecvInit ==
    /\ CodecIdle
    /\ loop \in {"_handle_connection", "_handle_forward_mode_connection"}
    /\ mode = (IF loop = "_handle_connection" THEN "simulate" ELSE "forward")
    /\ channel \in {"open", "closed"} /\ running = TRUE
    /\ sim_conn = "open" /\ hpc = "receive" /\ consecutive_empty_reads = 0
    /\ reads = 0 /\ frame = None /\ packet = None /\ handled = None
    /\ raised = "none" /\ escaped = "none" /\ response = None /\ sent = <<>>
    /\ loop_exc = "none" /\ wr = None /\ chunks = <<>>
    /\ provisioner = None /\ attempts = <<>> /\ calls = <<>> /\ attempt = 0 /\ slept = 0
    /\ wire \in Arrivals /\ got = <<>> /\ handling = 1
    /\ consecutive_errors = 0 /\ polls = <<>>
    /\ files = <<>>

\* one receive call of the loop, made while bytes are on the wire
ReceiveCall ==
    /\ hpc = "receive" /\ wire # <<>>
    /\ \E r \in {IF loop = "_handle_connection" THEN _receive_data(wire, channel)
                 ELSE _receive_packet_data(wire, channel)} :
          /\ frame' = r.ret /\ wire' = r.rest /\ got' = Append(got, r.ret)
    /\ reads' = reads + 1
    /\ UNCHANGED <<cvars, provisioner, attempts, fvars, uvars, handling, chunks, mode, loop, channel,
                   running, sim_conn, hpc, consecutive_empty_reads, packet, handled,
                   raised, escaped, response, sent, loop_exc, wr, files>>

SpecRecv == RecvInit /\ [][ReceiveCall]_vars

(***************************************************************************)
(* _handle_packet called on its own, on each packet of DispatchPackets.    *)
(***************************************************************************)
PathAX == <<47, 97, 47, 120>>       \* "/a/x"
PathZ == <<47, 122>>                \* "/z"
\* struct.pack("<Q", 2**63)
TwoTo63 == <<0, 0, 0, 0, 0, 0, 0, 128>>

HandshakePayloads == {<<>>, <<65>>, <<255>>, <<195, 169>>, <<195, 40>>}

UnknownCommands ==
    {0, 12, 127, RESPONSE_OK, RESPONSE_ERROR, RESPONSE_DATA, RESPONSE_FILE_CHUNK,
     RESPONSE_END, 254}

DispatchPackets ==
    {Packet(HANDSHAKE, FLAG_NONE, b) : b \in HandshakePayloads}
      \cup {Packet(c, FLAG_NONE, b) : c \in UnknownCommands, b \in {<<>>, <<255>>}}
      \cup {Packet(c, FLAG_NONE, serialize_path(path)) :
               c \in {LIST_DIR, GET_FILE_INFO, CREATE_DIR, DELETE, GET_STORAGE_INFO},
               path \in {<<>>, Slash, PathA, PathB, PathAX}}
      \cup {Packet(c, FLAG_NONE, b) :
               c \in {LIST_DIR, READ_FILE, WRITE_FILE, RENAME, SEARCH,
                      GET_STORAGE_INFO, GET_DRIVES, DISCONNECT},
               b \in {<<>>, <<1>>, <<1, 0, 0, 0, 255>>}}
      \cup {Packet(READ_FILE, FLAG_NONE, b) :
               b \in {read_request(PathA, 0, 10), read_request(PathA, 1, 1),
                      read_request(PathA, 5, 1), read_request(PathB, 0, 1),
                      serialize_path(PathA) \o TwoTo63 \o pack_u64(1),
                      serialize_path(PathA) \o pack_u64(0) \o TwoTo63}}
      \cup {Packet(WRITE_FILE, FLAG_NONE, b) :
               b \in {write_header(PathB, 2, 1), write_header(PathAX, 1, 1),
                      write_header(PathA, 3, 1),
                      write_header(PathZ, 0, 0), write_header(<<122>>, 1, 1)}}
      \cup {Packet(RENAME, FLAG_NONE, two_strings(path, name)) :
               path \in {PathA, PathB, PathZ}, name \in {<<98>>, <<122>>}}
      \cup {Packet(SEARCH, FLAG_NONE, two_strings(q, path)) :
               q \in {<<>>, <<65>>}, path \in {<<>>, PathB}}

DispatchInit ==
    /\ CodecIdle
    /\ mode = "simulate" /\ loop = "none" /\ running = TRUE
    /\ sim_conn = "open" /\ hpc = "call" /\ consecutive_empty_reads = 0
    /\ reads = 0 /\ frame = None /\ handled = None
    /\ raised = "none" /\ escaped = "none" /\ response = None /\ sent = <<>>
    /\ loop_exc = "none" /\ wr = None /\ chunks = <<>>
    /\ provisioner = None /\ attempts = <<>> /\ calls = <<>> /\ attempt = 0 /\ slept = 0
    /\ wire = <<>> /\ got = <<>> /\ handling = 0
    /\ consecutive_errors = 0 /\ polls = <<>>
    /\ channel \in {"open"} \cup TcpFaults
    /\ packet \in DispatchPackets
    /\ files \in InitialFiles

DispatchNext == Dispatch \/ WriteChunk

SpecDispatch == DispatchInit /\ [][DispatchNext]_vars

(***************************************************************************)
(* A WRITE_FILE whose peer keeps sending validly framed chunk packets.     *)
(***************************************************************************)
ChunkPackets ==
    {Packet(RESPONSE_FILE_CHUNK, fl, b) :
        fl \in {FLAG_NONE, FLAG_CONTINUATION, FLAG_FINAL}, b \in {<<>>, <<7>>}}

\* _handle_write_file: one turn of "while received < total_size" on a chunk
\* that arrived whole; chunks keeps the last chunk only and reads stops
\* counting at MaxReads
ReceiveChunk ==
    /\ hpc = "wchunk"
    /\ \E chunk_packet \in ChunkPackets, fault \in Faults :
          \E r \in {try_except(write_file_chunk_step(wr, Bytes(to_bytes(chunk_packet)),
                                                     files, fault))} :
              /\ raised' = r.raised
              /\ escaped' = r.escaped
              /\ response' = r.response
              /\ wr' = r.wr
              /\ files' = r.files
              /\ hpc' = AfterDispatch(r)
              /\ loop_exc' = r.escaped
              /\ frame' = Bytes(to_bytes(chunk_packet))
              /\ chunks' = <<chunk_packet>>
    /\ reads' = IF reads < MaxReads THEN reads + 1 ELSE reads
    /\ UNCHANGED <<cvars, avars, mode, loop, channel, running, sim_conn,
                   consecutive_empty_reads, packet, handled, sent>>

UploadNext == Dispatch \/ ReceiveChunk

ChunkFrames == {Bytes(to_bytes(p)) : p \in ChunkPackets}

\* a step of ReceiveChunk, told by the position and the frame read
ChunkRead ==
    /\ hpc = "wchunk" /\ hpc' \in {"wchunk", "returned"}
    /\ frame' \in ChunkFrames

\* the peer keeps sending: a handler that waits for a chunk gets one
SpecUpload ==
    DispatchInit /\ [][UploadNext]_vars /\ WF_<<hpc, frame>>(ChunkRead)

(***************************************************************************)
(* _handle_packet called on READ_FILE requests for a file that spans more  *)
(* than two chunks.                                                        *)
(***************************************************************************)
BigFileSize == 65537

PathBig == <<47, 103>>              \* "/g"

BigContent == [i \in 1..BigFileSize |-> i % 251]

ReadFiles == (PathBig :> File(BigContent)) @@ (PathA :> File(<<1, 2>>))

ReadOffsets == {0, 1, CHUNK_SIZE, CHUNK_SIZE + 1, BigFileSize - 1, BigFileSize}

ReadLengths ==
    {0, 1, CHUNK_SIZE - 1, CHUNK_SIZE, CHUNK_SIZE + 1, 2 * CHUNK_SIZE,
     BigFileSize, BigFileSize + 1}

ReadPackets ==
    {Packet(READ_FILE, FLAG_NONE, read_request(PathBig, o, l)) :
        o \in ReadOffsets, l \in ReadLengths}
      \cup {Packet(READ_FILE, FLAG_NONE,
                   serialize_path(PathBig) \o pack_u64(o) \o TwoTo63) :
                o \in ReadOffsets}
      \cup {Packet(READ_FILE, FLAG_NONE, read_request(PathA, o, l)) :
                o \in {0, 1, 2}, l \in {0, 1, 2, 3}}

ReadInit ==
    /\ CodecIdle
    /\ mode = "simulate" /\ loop = "none" /\ running = TRUE
    /\ sim_conn = "open" /\ hpc = "call" /\ consecutive_empty_reads = 0
    /\ reads = 0 /\ frame = None /\ handled = None
    /\ raised = "none" /\ escaped = "none" /\ response = None /\ sent = <<>>
    /\ loop_exc = "none" /\ wr = None /\ chunks = <<>>
    /\ provisioner = None /\ attempts = <<>> /\ calls = <<>> /\ attempt = 0 /\ slept = 0
    /\ wire = <<>> /\ got = <<>> /\ handling = 0
    /\ consecutive_errors = 0 /\ polls = <<>>
    /\ channel \in {"open"} \cup TcpFaults
    /\ packet \in ReadPackets
    /\ files = ReadFiles

ReadNext == Dispatch

SpecRead == ReadInit /\ [][ReadNext]_vars

(***************************************************************************)
(* _handle_packet called with a directory of long-named files on the file  *)
(* system: "/d" holds DirEntries files with names of NameChars characters. *)
(***************************************************************************)
MAX_PACKET_SIZE == 65536
DirEntries == 43
NameChars == 255

PathD == <<47, 100>>                \* "/d"

\* the i-th name: NameChars characters of three bytes each in UTF-8, the
\* first two told by i and then euro signs (E2 82 AC)
LongName(i) ==
    [j \in 1..(3 * NameChars) |->
        CASE j = 3 -> 128 + (i \div 10)
          [] j = 6 -> 128 + (i % 10)
          [] j % 3 = 1 -> 226
          [] j % 3 = 2 -> 130
          [] OTHER -> 172]

DirFiles ==
    [p \in {PathD} \cup {join(PathD, LongName(i)) : i \in 1..DirEntries} |->
        IF p = PathD THEN Dir ELSE File(<<>>)]

ListPackets ==
    DispatchPackets
      \cup {Packet(c, FLAG_NONE, serialize_path(PathD)) :
               c \in {LIST_DIR, GET_FILE_INFO, DELETE}}
      \cup {Packet(SEARCH, FLAG_NONE, two_strings(q, path)) :
               q \in {<<226, 130, 172>>, <<97>>}, path \in {Slash, PathD}}

ListInit ==
    /\ CodecIdle
    /\ mode = "simulate" /\ loop = "none" /\ running = TRUE
    /\ sim_conn = "open" /\ hpc = "call" /\ consecutive_empty_reads = 0
    /\ reads = 0 /\ frame = None /\ handled = None
    /\ raised = "none" /\ escaped = "none" /\ response = None /\ sent = <<>>
    /\ loop_exc = "none" /\ wr = None /\ chunks = <<>>
    /\ provisioner = None /\ attempts = <<>> /\ calls = <<>> /\ attempt = 0 /\ slept = 0
    /\ wire = <<>> /\ got = <<>> /\ handling = 0
    /\ consecutive_errors = 0 /\ polls = <<>>
    /\ channel \in {"open"} \cup TcpFaults
    /\ packet \in ListPackets
    /\ files = DirFiles

ListNext == Dispatch

SpecList == ListInit /\ [][ListNext]_vars

(***************************************************************************)
(* Properties of the codec (checked under SpecCodec)                       *)
(***************************************************************************)
\* the buffer is the untouched output of to_bytes(pkt)
Intact == cpc # "input" /\ tamper = "none"

BadMagic(data) == Slice(data, 0, 4) # MAGIC

\* the buffer holds the 10 header bytes, the payload its length field
\* announces, and 4 more bytes
FullyBuffered(data) ==
    /\ Len(data) >= 14
    /\ U32Fits(unpack_u32(Slice(data, 6, 10)))
    /\ Len(data) - 14 >= U32ToInt(unpack_u32(Slice(data, 6, 10)))

\* the 4 bytes after the payload are not the little-endian reference CRC-32
\* of the bytes before them
TrailerMismatch(data) ==
    LET n == U32ToInt(unpack_u32(Slice(data, 6, 10)))
        crc == kotlin_crc32(Slice(data, 0, 10 + n))
    IN  Slice(data, 10 + n, 14 + n)
          # <<crc.lo % 256, crc.lo \div 256, crc.hi % 256, crc.hi \div 256>>

\* C1: decoding the encoding of a packet gives back the packet: the same
\* command, flags and payload.
C1_RoundTrip ==
    (cpc = "decoded" /\ tamper = "none") =>
        /\ decoded.kind = "Packet"
        /\ decoded.command = pkt.command
        /\ decoded.flags = pkt.flags
        /\ decoded.payload = pkt.payload

C1_Witness ==
    /\ cpc = "decoded" /\ tamper = "none"
    /\ Len(pkt.payload) >= 2
    /\ decoded = pkt

\* C2: to_bytes yields 14 + len(payload) bytes: "PCEX", command, flags, the
\* payload length as little-endian u32, the payload, and the little-endian
\* u32 CRC-32 of all the bytes before it.
C2_WireFormat ==
    Intact =>
        LET n == Len(pkt.payload) IN
        /\ Len(buf) = 14 + n
        /\ SubSeq(buf, 1, 4) = <<80, 67, 69, 88>>
        /\ buf[5] = pkt.command
        /\ buf[6] = pkt.flags
        /\ buf[7] = n % 256 /\ buf[8] = (n \div 256) % 256
        /\ buf[9] = (n \div 65536) % 256 /\ buf[10] = n \div 16777216
        /\ SubSeq(buf, 11, 10 + n) = pkt.payload
        /\ ~TrailerMismatch(buf)

C2_Witness ==
    /\ cpc = "encoded"
    /\ Len(pkt.payload) >= 1
    /\ Len(buf) = 14 + Len(pkt.payload)

\* C3: the codec's checksum (zlib.crc32 masked to 32 bits) equals the
\* table-free bit-loop CRC-32 on every byte sequence, and is 0 on the empty
\* one.
C3_CrcAgree ==
    /\ python_crc32(buf) = kotlin_crc32(buf)
    /\ python_crc32(<<>>) = [hi |-> 0, lo |-> 0]
    /\ kotlin_crc32(<<>>) = [hi |-> 0, lo |-> 0]

C3_Witness ==
    /\ cpc = "tampered"
    /\ Len(buf) >= 4
    /\ python_crc32(buf) = kotlin_crc32(buf)
    \* the vector of 'PCEX': 0x702B81A1
    /\ python_crc32(MAGIC) = [hi |-> 28715, lo |-> 33185]

\* C4: from_bytes returns no Packet for a buffer whose first four bytes are
\* not 'PCEX', nor for a fully buffered frame whose trailing four bytes
\* differ from the checksum of the bytes before them.
C4_InvalidRejected ==
    (cpc = "decoded" /\ (BadMagic(buf) \/ (FullyBuffered(buf) /\ TrailerMismatch(buf))))
        => decoded = None

C4_Witness ==
    /\ cpc = "decoded"
    /\ ~BadMagic(buf)
    /\ FullyBuffered(buf) /\ TrailerMismatch(buf)
    /\ decoded = None

\* a buffer with valid magic that does not yet hold 10 + payload_length + 4
\* bytes
NeedsMoreBytes(data) ==
    /\ ~BadMagic(data)
    /\ ~FullyBuffered(data)

\* what from_bytes returns for a magic mismatch (14 zero bytes)
InvalidOutcome == from_bytes(<<0, 0, 0, 0, 0, 0, 0, 0, 0, 0, 0, 0, 0, 0>>)

\* C5 as claimed: a short buffer with valid magic gets an outcome
\* ("needs more bytes") that differs from the Invalid outcome.
C5_NeedsMoreIsDistinct ==
    (cpc = "decoded" /\ NeedsMoreBytes(buf)) => decoded # InvalidOutcome

\* C5 as amended: a short buffer with valid magic gets None, the very value
\* a magic or checksum mismatch gets; no packet and no count come back.
C5_ShortReturnsNone ==
    (cpc = "decoded" /\ NeedsMoreBytes(buf)) =>
        (decoded = None /\ decoded = InvalidOutcome)

C5_Witness ==
    /\ cpc = "decoded"
    /\ NeedsMoreBytes(buf)
    /\ Len(buf) >= 14
    /\ decoded = None

(***************************************************************************)
(* Properties of the connection loops (checked under Spec)                 *)
(***************************************************************************)
\* the thread is between two passes of its loop, or has left the loop
PassOver == hpc \in {"recv", "ended"}

\* the last thing written to the channel is the dispatcher's answer
Answered ==
    /\ handled = packet
    /\ response # None
    /\ sent # <<>>
    /\ sent[Len(sent)] = response

\* C6 as claimed: in _handle_connection, when a received frame decoded to a
\* packet (whatever its command byte) and the channel is still open, then
\* by the time the loop reads the next frame the packet has been handed to
\* _handle_packet and the response has been written.
C6_DecodedFrameAnswered ==
    (loop = "_handle_connection" /\ hpc = "recv" /\ packet # None
        /\ channel = "open") => Answered

\* C7 as claimed: in _handle_forward_mode_connection, when a received frame
\* decoded to a packet and the channel is still open, then at the end of
\* the pass the packet has been dispatched, its response written, and the
\* connection is open for the next frame.
C7_ForwardFrameAnswered ==
    (loop = "_handle_forward_mode_connection" /\ PassOver /\ packet # None
        /\ channel = "open") =>
        (Answered /\ hpc = "recv" /\ sim_conn = "open")

(***************************************************************************)
(* Properties of the dispatcher (checked under SpecDispatch)               *)
(***************************************************************************)
\* the twelve request codes
RequestCodes ==
    {HANDSHAKE, LIST_DIR, GET_FILE_INFO, READ_FILE, WRITE_FILE, CREATE_DIR,
     DELETE, RENAME, SEARCH, GET_DRIVES, GET_STORAGE_INFO, DISCONNECT}

\* _handle_packet has come back
Dispatched == hpc = "returned" /\ handled # None

\* the packet is a RESPONSE_ERROR whose payload starts with the error code
IsError(resp, code) ==
    /\ resp # None
    /\ resp.command = RESPONSE_ERROR
    /\ Len(resp.payload) >= 8
    /\ U32ToInt(unpack_u32(Slice(resp.payload, 0, 4))) = code

\* C8: for a packet whose command byte is none of the twelve request codes,
\* _handle_packet returns RESPONSE_ERROR with code UNKNOWN_COMMAND, and no
\* handler has run (nothing raised, nothing written, no file touched).
C8_UnknownCommandRejected ==
    (Dispatched /\ handled.command \notin RequestCodes) =>
        (IsError(response, UNKNOWN_COMMAND) /\ raised = "none" /\ sent = <<>>)

C8_Witness ==
    /\ Dispatched
    /\ handled.command = 127
    /\ IsError(response, UNKNOWN_COMMAND)

\* the error code the claim gives a failure of class e
ClaimedCode(e) ==
    CASE e = "FileNotFoundError" -> FILE_NOT_FOUND
      [] e = "PermissionError" -> PERMISSION_DENIED
      [] e = "FileExistsError" -> ALREADY_EXISTS
      [] OTHER -> IO_ERROR

\* C9: no exception leaves _handle_packet, and when a handler raised, the
\* packet returned is a RESPONSE_ERROR with FILE_NOT_FOUND for a not-found
\* failure, PERMISSION_DENIED for a permission failure, ALREADY_EXISTS for
\* an already-exists failure and IO_ERROR for any other.
C9_FailuresBecomeErrors ==
    /\ escaped = "none"
    /\ (Dispatched /\ raised # "none") => IsError(response, ClaimedCode(raised))

C9_Witness ==
    /\ Dispatched
    /\ raised = "FileExistsError"
    /\ IsError(response, ALREADY_EXISTS)

\* C10 as claimed: whatever the payload of a HANDSHAKE packet, _handle_packet
\* returns RESPONSE_OK with the payload "PCEX-Server-1.0".
C10_HandshakeAlwaysOk ==
    (Dispatched /\ handled.command = HANDSHAKE) =>
        response = Packet(RESPONSE_OK, FLAG_NONE, ServerIdentity)

\* C11: DISCONNECT is answered with RESPONSE_OK and an empty payload, and the
\* call of the dispatcher leaves the connection as it was: the channel is not
\* closed and the running flag is not cleared.
C11_DisconnectOnlyAnswers ==
    [][(hpc = "call" /\ packet.command = DISCONNECT)
          => /\ response' = Packet(RESPONSE_OK, FLAG_NONE, <<>>)
             /\ hpc' = "returned" /\ sent' = sent
             /\ running' = running /\ sim_conn' = sim_conn
             /\ channel' = channel /\ mode' = mode]_vars

C11_Witness ==
    /\ Dispatched /\ handled.command = DISCONNECT
    /\ response = Packet(RESPONSE_OK, FLAG_NONE, <<>>)
    /\ running /\ sim_conn = "open" /\ channel = "open"

\* the READ_FILE request that was dispatched, the size of its file and the
\* number of bytes it asks for within the file
ReadRequest == deserialize_file_read_request(handled.payload).value
ReadTotal == Len(files[ReadRequest.path].content)
ReadCount == Min(ReadRequest.length, ReadTotal - ReadRequest.offset)

\* a READ_FILE within its file came back without a failure of the platform
\* or of the channel
ReadInRange ==
    /\ Dispatched /\ handled.command = READ_FILE /\ raised = "none"
    /\ ReadRequest.offset <= ReadTotal

\* C12: an in-range READ_FILE of N bytes writes ceil(N/32768)
\* RESPONSE_FILE_CHUNK packets, CONTINUATION on all but the last, FINAL on
\* the last, and returns one RESPONSE_END; for N = 0 it writes no chunk.
C12_ChunkCountAndFlags ==
    ReadInRange =>
        /\ Len(sent) = (ReadCount + CHUNK_SIZE - 1) \div CHUNK_SIZE
        /\ \A i \in 1..Len(sent) :
              /\ sent[i].command = RESPONSE_FILE_CHUNK
              /\ sent[i].flags = IF i = Len(sent) THEN FLAG_FINAL ELSE FLAG_CONTINUATION
        /\ response = Packet(RESPONSE_END, FLAG_NONE, <<>>)

C12_Witness ==
    /\ ReadInRange /\ ReadCount = BigFileSize /\ Len(sent) = 3
    /\ sent[2].flags = FLAG_CONTINUATION /\ sent[3].flags = FLAG_FINAL
    /\ response.command = RESPONSE_END

\* the payloads of packets ps, one after the other
RECURSIVE Payloads_of(_)
Payloads_of(ps) ==
    IF ps = <<>> THEN <<>> ELSE Head(ps).payload \o Payloads_of(Tail(ps))

\* C13: every chunk payload of a READ_FILE holds at most 32768 bytes, and
\* the payloads in the order sent are the file bytes [offset, offset + N).
C13_ChunksAreTheBytes ==
    ReadInRange =>
        /\ \A i \in 1..Len(sent) : Len(sent[i].payload) <= CHUNK_SIZE
        /\ Payloads_of(sent) = Slice(files[ReadRequest.path].content,
                                     ReadRequest.offset, ReadRequest.offset + ReadCount)

C13_Witness ==
    /\ ReadInRange /\ ReadRequest.offset = 1 /\ Len(sent) = 2
    /\ Len(Payloads_of(sent)) = BigFileSize - 1

\* a READ_FILE that starts beyond the end of its file was dispatched
ReadBeyondEnd ==
    /\ Dispatched /\ handled.command = READ_FILE
    /\ deserialize_file_read_request(handled.payload).exc = "none"
    /\ exists(files, ReadRequest.path) /\ ~isdir(files, ReadRequest.path)
    /\ ReadRequest.offset > ReadTotal

\* C14: a READ_FILE whose offset lies beyond the size of the file is
\* answered with RESPONSE_ERROR, not with the RESPONSE_END of an empty read.
C14_InvalidRangeRejected ==
    ReadBeyondEnd => (response # None /\ response.command = RESPONSE_ERROR)

\* the WRITE_FILE that was dispatched: its header, the bytes its chunks
\* carried so far, and the chunk received last
InWriteFile == hpc \in {"wchunk", "returned"} /\ handled.command = WRITE_FILE
WriteHeader == deserialize_file_write_header(handled.payload).value
BytesReceived == Len(Payloads_of(chunks))
LastChunk == chunks[Len(chunks)]
Ready == Packet(RESPONSE_OK, FLAG_NONE, <<>>)

\* C15: the file written through WRITE_FILE holds the bytes of the chunks in
\* the order received: the first chunk creates (or truncates) the file and
\* every later chunk lands at the offset equal to the bytes before it.
C15_WriteRoundTrip ==
    (InWriteFile /\ chunks # <<>> /\ raised = "none")
        => /\ exists(files, WriteHeader.path) /\ ~isdir(files, WriteHeader.path)
           /\ files[WriteHeader.path].content = Payloads_of(chunks)

C15_Witness ==
    /\ InWriteFile /\ hpc = "returned" /\ response = Ready
    /\ Len(chunks) = 2 /\ HasFinal(LastChunk.flags)
    /\ files[WriteHeader.path].content = <<7, 9>>

\* C16: WRITE_FILE writes its readiness RESPONSE_OK before any chunk is
\* read, writes nothing else itself, and ends with one terminal packet:
\* RESPONSE_OK, or RESPONSE_ERROR when something failed.
C16_ReadyThenOneTerminal ==
    /\ (InWriteFile /\ (hpc = "wchunk" \/ reads > 0)) => sent = <<Ready>>
    /\ hpc = "wchunk" => response = None
    /\ (InWriteFile /\ hpc = "returned")
          => /\ response.command \in {RESPONSE_OK, RESPONSE_ERROR}
             /\ raised # "none" => response.command = RESPONSE_ERROR
             /\ response.command = RESPONSE_OK => sent = <<Ready>>
             /\ Len(sent) <= 1

C16_Witness ==
    /\ InWriteFile /\ hpc = "returned" /\ reads = 2
    /\ sent = <<Ready>> /\ response = Ready

C18_TransferFailures ==
    [][hpc = "wchunk"
         => /\ frame' = None
                 => response' = _error_response(IO_ERROR, ConnectionLostText)
            /\ (frame' # None /\ from_bytes(frame'.value) = None)
                 => response' = _error_response(PROTOCOL_ERROR, InvalidChunkText)
            /\ (frame' = None \/ from_bytes(frame'.value) = None)
                 => (hpc' = "returned" /\ wr' = None /\ files' = files
                       /\ chunks' = chunks)]_vars

C18_Witness ==
    /\ InWriteFile /\ hpc = "returned" /\ Len(chunks) = 1 /\ frame = None
    /\ response = _error_response(IO_ERROR, ConnectionLostText)
    /\ files[WriteHeader.path].content = LastChunk.payload

\* the place of a connection mode in the order of the automatic fallback
Rank(m) == CASE m = "adb" -> 1 [] m = "usb" -> 2 [] m = "simulate" -> 3 [] OTHER -> 0

\* start() has come to rest: it waits for a peer, serves one, or is over
Settled == hpc \notin {"start", "usb_wait"}

\* C19: AUTO resolves only to ADB_REVERSE, USB or SIMULATE, tried in that
\* order, never to ADB_FORWARD; when the ADB_REVERSE and the USB transport
\* both fail and the TCP listener opens, the server ends up in SIMULATE,
\* listening for (or serving) a connection.
C19_AutoFallsBackToSimulate ==
    /\ mode \in {"auto", "adb", "usb", "simulate"}
    /\ \A i \in 1..Len(attempts) :
          /\ Rank(attempts[i]) > 0
          /\ i > 1 => Rank(attempts[i - 1]) <= Rank(attempts[i])
    /\ (mode # "auto") => (attempts # <<>> /\ mode = attempts[Len(attempts)])
    /\ (Settled /\ provisioner.adb # "ok"
          /\ provisioner.usb \in {"ImportError", "NoBackendError", "errors"}
          /\ provisioner.tcp = "ok")
         => (mode = "simulate" /\ hpc \in {"listening", "recv", "stopped"})

\* C20: in AUTO mode every failure to acquire the ADB_REVERSE transport
\* (no ADB executable, no ready device, the bind failing, the reverse
\* tunnel failing) makes the server go on to the USB candidate.
C20_AdbFailureAdvancesToUsb ==
    (hpc # "start" /\ provisioner.adb # "ok")
        => (Len(attempts) >= 2 /\ attempts[2] = "usb")


(***************************************************************************)
(* start() in an explicitly selected mode (SpecStart)                      *)
(***************************************************************************)
\* the mode start() was called with
StartMode == IF attempts = <<>> THEN mode ELSE attempts[1]

\* the transport of the selected mode could not be acquired
TransportFailed ==
    \/ StartMode = "adb" /\ provisioner.adb # "ok"
    \/ StartMode = "forward"
         /\ (provisioner.adb # "ok" \/ (hpc = "start_returned" /\ loop = "none"))
    \/ StartMode = "usb" /\ provisioner.usb \in {"ImportError", "NoBackendError"}

\* start() is over: it returned, or an exception left it
StartLeft == hpc = "start_returned" \/ (hpc = "failed" /\ mode # "forward")

\* C21: when the transport of an explicitly selected mode ('adb',
\* 'forward', 'usb') cannot be acquired, at whatever step, and a TCP
\* listener can be opened, the server is in simulation mode, listening or
\* serving, and start() has not returned.
C21_ExplicitModeFallsBackToSimulate ==
    (hpc # "start" /\ StartMode \in {"adb", "forward", "usb"} /\ TransportFailed
        /\ provisioner.tcp = "ok")
      => (mode = "simulate" /\ ~StartLeft)

\* C22: start() is not left while self.running is set, whatever the mode
\* and whatever the outcome of acquiring the transport or of a connection.
C22_StartStaysWhileRunning == running => ~StartLeft


(***************************************************************************)
(* The connection loops (Spec)                                             *)
(***************************************************************************)
\* the step is one pass of a connection loop: a receive call made by
\* _handle_connection or _handle_forward_mode_connection
LoopRead == hpc = "recv" /\ reads' = reads + 1

\* C23: in a connection loop an empty read adds one to the count of
\* consecutive empty reads and ends the connection exactly when the count
\* reaches three; a non-empty read sets the count back to zero.
C23_ThreeEmptyReadsEnd ==
    [][LoopRead =>
          IF frame' = None
          THEN /\ consecutive_empty_reads' = consecutive_empty_reads + 1
               /\ (hpc' = "ended") = (consecutive_empty_reads' >= 3)
               /\ (hpc' # "ended") => hpc' = "recv"
          ELSE consecutive_empty_reads' = 0]_vars

C23_Witness ==
    hpc = "ended" /\ consecutive_empty_reads = 3 /\ frame = None /\ channel = "open"


\* C24: when the transport signals a reset (ConnectionResetError), the
\* read or the write that meets it ends the connection loop there and
\* then, without further empty reads.
C24_ResetEndsAtOnce ==
    [][(channel = "ConnectionResetError" /\ running'
          /\ (LoopRead \/ (hpc = "send" /\ hpc' # "send")))
         => hpc' = "ended"]_vars


\* C25: whenever a connection loop is left while self.running is set, the
\* server goes back to accepting (TCP server modes) or to searching for
\* the device: start() is not left.
C25_BackToListeningOrProbing ==
    [][(hpc = "ended" /\ running) => (hpc' \in {"listening", "usb_poll"} /\ running')]_vars


(***************************************************************************)
(* Reading packets from a TCP socket (SpecRecv)                            *)
(***************************************************************************)
\* the frames the receive calls returned
Frames(g) == SelectSeq(g, LAMBDA x : x # None)

\* C26: however the bytes of the two frames are split into segments, each
\* receive call that returns data returns one whole frame (10 header bytes
\* and payload_length + 4 more), in the order written; bytes of a short
\* read are kept, so that once the wire is empty both frames were returned.
C26_FramesSurviveShortReads ==
    /\ Frames(got) \in {<<>>, <<Bytes(Frame1)>>, <<Bytes(Frame1), Bytes(Frame2)>>}
    /\ wire = <<>> => Frames(got) = <<Bytes(Frame1), Bytes(Frame2)>>


\* C27: a frame that fails decoding (wrong magic, wrong checksum) makes
\* the connection loop write nothing and go on to its next read: the
\* connection is not ended.
C27_BadFrameIsSkipped ==
    [][(LoopRead /\ frame' \in {Bytes(BadFrame), Bytes(BadChecksumFrame)})
         => (hpc' = "recv" /\ sent' = <<>> /\ packet' = None /\ sim_conn' = sim_conn)]_vars

C27_Witness ==
    /\ hpc = "recv" /\ reads = 2 /\ frame = Bytes(BadChecksumFrame) /\ sent = <<>>
    /\ consecutive_empty_reads = 0


\* C28: in forward mode nothing is written or read on a new connection
\* before the handshake, and the first packet written is HANDSHAKE; in the
\* other modes no HANDSHAKE packet is ever written.
C28_HandshakeFirstInForwardOnly ==
    /\ hpc = "handshake" => (mode = "forward" /\ sent = <<>> /\ reads = 0 /\ frame = None)
    /\ (mode = "forward" /\ hpc = "recv" /\ reads = 0)
          => (Len(sent) = 1 /\ sent[1].command = HANDSHAKE)
    /\ mode # "forward" => \A i \in 1..Len(sent) : sent[i].command # HANDSHAKE

C28_Witness ==
    /\ mode = "forward" /\ hpc = "recv" /\ reads = 0 /\ attempt = 2
    /\ sent = <<handshake_packet>>


\* the retry loop of forward mode: at most 10 connects, 2 seconds slept
\* after each failed attempt but the tenth, and the loop left after the
\* tenth failure
ConnectLoopBounded ==
    /\ attempt <= 10
    /\ hpc = "connecting" => (attempt < 10 /\ slept = 2 * attempt)
    /\ (mode = "forward" /\ hpc \in {"handshake", "failed"})
          => (attempt >= 1 /\ slept = 2 * (attempt - 1))
    /\ attempt = 10 => slept = 18

\* C29 as stated: the connect loop is bounded as above, and once an
\* attempt has connected no further connect is made.
C29_StopsAfterFirstConnect ==
    [](ConnectLoopBounded)
      /\ [][(mode = "forward" /\ loop # "none") => attempt' = attempt]_vars

\* C29, amended: the connect loop is bounded as above, and once an attempt
\* has connected and sent its handshake no further connect is made (an
\* attempt that connects and fails to send the handshake is a failed
\* attempt like the others).
C29_StopsAfterFirstHandshake ==
    [](ConnectLoopBounded)
      /\ [][(mode = "forward" /\ hpc \in {"recv", "ended", "start_returned", "stopped"})
              => attempt' = attempt]_vars

C29_Witness ==
    /\ mode = "forward" /\ hpc = "start_returned" /\ attempt = 10 /\ slept = 18
    /\ sim_conn = "open" /\ loop = "_handle_forward_mode_connection"


\* C30: in ADB reverse mode the reverse tunnel is asked for only after the
\* bind and listen on 127.0.0.1:5555, and never when that bind failed.
C30_BindBeforeReverseTunnel ==
    \A i \in 1..Len(calls) :
        calls[i] = "auto_setup_adb_reverse"
          => /\ \E j \in 1..(i - 1) : calls[j] = "bind 127.0.0.1:5555"
             /\ provisioner.adb # "bind_failed"

C30_Witness ==
    /\ mode = "adb" /\ hpc = "listening" /\ provisioner.adb = "reverse_failed"
    /\ calls = <<"check_adb_device_ready", "cleanup_adb_port", "bind 127.0.0.1:5555",
                 "auto_setup_adb_reverse">>


\* C31: at most one connection is being handled at any time; while the
\* server waits for a peer, searches for the device or connects outward,
\* no connection is being handled.
C31_OneConnectionAtATime ==
    /\ handling \in {0, 1}
    /\ hpc \in {"listening", "usb_poll", "connecting"} => handling = 0

\* a second peer is being served after the first one went away
C31_Witness ==
    /\ mode = "simulate" /\ hpc = "recv" /\ handling = 1 /\ reads = 3
    /\ consecutive_empty_reads = 0 /\ frame = None


(***************************************************************************)
(* stop() during start() (SpecStop)                                        *)
(***************************************************************************)
\* C32: once self.running is cleared no loop starts another iteration: no
\* further outward connect is made, no connection loop takes another
\* read, no further peer is accepted.
C32_NoIterationAfterStop ==
    [][~running => (attempt' = attempt /\ ~LoopRead /\ handling' <= handling)]_vars


\* C36: during a WRITE_FILE the bytes written to the file never exceed the
\* totalSize of the header.
C36_WrittenWithinTotalSize ==
    (InWriteFile /\ chunks # <<>> /\ raised = "none")
        => /\ BytesReceived <= WriteHeader.total_size
           /\ Len(files[WriteHeader.path].content) <= WriteHeader.total_size

\* C37: after a WRITE_FILE that ended with RESPONSE_OK a file is at the
\* requested path, also when the header announced no bytes.
C37_FileExistsAfterOk ==
    (InWriteFile /\ hpc = "returned" /\ response = Ready)
        => /\ WriteHeader.path \in DOMAIN files
           /\ files[WriteHeader.path].is_dir = FALSE

\* C38: the GET_FILE_INFO response carries serialize_file_item of the
\* item, nothing before it and nothing missing.
C38_FileInfoIsOneItem ==
    (hpc = "returned" /\ handled.command = GET_FILE_INFO
       /\ response.command = RESPONSE_DATA)
        => response.payload =
              serialize_file_item(
                  get_file_info(files, deserialize_path(handled.payload).value,
                                "none").value)


(***************************************************************************)
(* Uploads that go on (SpecUpload)                                         *)
(***************************************************************************)
\* C35: every WRITE_FILE exchange terminates: whatever validly framed
\* chunks the peer sends, the handler that waits for a chunk comes to
\* return its terminal response.
C35_WriteFileTerminates == (hpc = "wchunk") ~> (hpc = "returned")


(***************************************************************************)
(* Channels and uploads, continued (SpecStart, SpecDispatch)               *)
(***************************************************************************)
\* C39: in the modes that accept TCP peers the accepted channel is closed
\* when its connection loop has ended: while the server waits for the next
\* peer no accepted channel is open.
C39_ClosedBeforeNextAccept ==
    (mode \in {"adb", "simulate"} /\ hpc = "listening") => sim_conn # "open"


(***************************************************************************)
(* One flipped bit (SpecFlip)                                              *)
(***************************************************************************)
\* the 0-based offset of the byte in which the frame differs from the
\* encoding of pkt
FlippedAt == (CHOOSE i \in 1..Len(buf) : buf[i] # to_bytes(pkt)[i]) - 1
FlipDecoded == cpc = "decoded" /\ tamper = "flip"

\* C34: a frame with one bit flipped in the magic [0,4) or in
\* the payload length [6,10) decodes to no Packet.
C34_HeaderFlipRejected ==
    (FlipDecoded /\ FlippedAt \in (0..3) \cup (6..9)) => decoded = None


(***************************************************************************)
(* Long listings (SpecList)                                                *)
(***************************************************************************)
\* C33: every packet the server writes has a payload of at most
\* MAX_PACKET_SIZE - HEADER_SIZE = 65522 bytes.
C33_PayloadWithinPacketSize ==
    /\ \A i \in 1..Len(sent) : Len(sent[i].payload) <= MAX_PACKET_SIZE - HEADER_SIZE
    /\ (hpc = "returned" /\ response # None)
          => Len(response.payload) <= MAX_PACKET_SIZE - HEADER_SIZE


(***************************************************************************)
(* The USB phase of auto mode (SpecUsbPhase)                               *)
(***************************************************************************)
\* the number of "error" turns at the end of ps
RECURSIVE TrailingErrors(_)
TrailingErrors(ps) ==
    IF ps = <<>> \/ ps[Len(ps)] # "error" THEN 0
    ELSE 1 + TrailingErrors(SubSeq(ps, 1, Len(ps) - 1))

\* the search loop was entered and USB was given up for 'simulate'
AbandonedUsb == polls # <<>> /\ mode = "simulate"

=============================================================================
